---- MODULE Spec2Model ----
(***************************************************************************)
(* Model of the screening and scoring engine of aristosys-backend:         *)
(*   - app/services/scoring_service.py  (ScoringService)                   *)
(*   - app/routers/screening.py         (normalize_name,                   *)
(*                                       partial_word_match, the grouping  *)
(*                                       pass of screen_candidates)        *)
(*                                                                         *)
(* Conventions.                                                            *)
(*   A Python str is a sequence of one-character strings, so that          *)
(*   str.lower(), splitting and substring tests are computed character by  *)
(*   character.  A Python number is an exact rational [n, d] with d > 0    *)
(*   in lowest terms (an int has d = 1); round() is Python's round half to *)
(*   even.  The rounding error of binary floats shows only where a running *)
(*   sum is exactly halfway between two results of round(); there the call *)
(*   carries the sign fp of the error and round() follows it; and in       *)
(*   years + 0.5 for the double next below 0.5 (see AddHalf).  A Python    *)
(*   dict whose iteration order the code observes is a sequence of         *)
(*   <<key, value>> pairs with distinct keys (candidates: a sequence of    *)
(*   records with the key in name); the analysis dicts, only read with     *)
(*   .get(), are functions on the keys present.                            *)
(***************************************************************************)
EXTENDS Integers, Sequences, FiniteSets, TLC

VARIABLES
    scoring,        \* services["scoring"]: the ScoringService instance
    call,           \* the last call made on the scoring service
    prev,           \* the score_candidate call before it, when it was re-run
    resumes,        \* screen_candidates: the uploaded resumes
    audio_files,    \* screen_candidates: the uploaded audio files
    candidates,     \* screen_candidates: the buckets, in insertion order
    pc,             \* screen_candidates: position in the grouping pass
    ri,             \* index of the next resume to process
    ai,             \* index of the next audio file to process
    jd,             \* screen_candidates: jd_analysis, the job analysis of the request
    result,         \* screen_candidates: the CandidateResult being filled
    results,        \* screen_candidates: the results appended so far
    trace,          \* the calls the request has made on its services, in order
    frames          \* the score_candidate calls in progress, one per thread

vars == <<scoring, call, prev, resumes, audio_files, candidates, pc, ri, ai,
          jd, result, results, trace, frames>>

----------------------------------------------------------------------------
(* Python strings *)

UpperChars == <<"A", "B", "C", "D", "E", "F", "G", "H", "I", "J", "K", "L", "M",
                "N", "O", "P", "Q", "R", "S", "T", "U", "V", "W", "X", "Y", "Z">>

LowerChars == <<"a", "b", "c", "d", "e", "f", "g", "h", "i", "j", "k", "l", "m",
                "n", "o", "p", "q", "r", "s", "t", "u", "v", "w", "x", "y", "z">>

\* the lower-case letter of each upper-case letter
LowerOf == [c \in {UpperChars[i] : i \in 1..26} |->
               LowerChars[CHOOSE i \in 1..26 : UpperChars[i] = c]]

LowerChar(c) == IF c \in DOMAIN LowerOf THEN LowerOf[c] ELSE c

\* str.lower()
lower(s) == [i \in 1..Len(s) |-> LowerChar(s[i])]

\* Python's None
None == <<"None">>

\* the tiers, as the keys of SKILL_STRENGTH_MULTIPLIER spell them
strong == <<"s", "t", "r", "o", "n", "g">>
moderate == <<"m", "o", "d", "e", "r", "a", "t", "e">>
weak == <<"w", "e", "a", "k">>
missing == <<"m", "i", "s", "s", "i", "n", "g">>

----------------------------------------------------------------------------
(* Python numbers *)

RECURSIVE GCD(_, _)
GCD(a, b) == IF b = 0 THEN a ELSE GCD(b, a % b)

Abs(x) == IF x < 0 THEN -x ELSE x

\* the number n/d (d > 0), in lowest terms
Rat(n, d) == LET g == GCD(Abs(n), d) IN [n |-> n \div g, d |-> d \div g]

Num(k) == [n |-> k, d |-> 1]

RatAdd(a, b) == Rat(a.n * b.d + b.n * a.d, a.d * b.d)

RatMul(a, b) == Rat(a.n * b.n, a.d * b.d)

\* a / b for b > 0
RatDiv(a, b) == Rat(a.n * b.d, a.d * b.n)

RatLt(a, b) == a.n * b.d < b.n * a.d

RatLe(a, b) == a.n * b.d <= b.n * a.d

\* min(a, b) and max(a, b): the first argument wins unless the second is
\* strictly smaller (larger)
PyMin(a, b) == IF RatLt(b, a) THEN b ELSE a

PyMax(a, b) == IF RatLt(a, b) THEN b ELSE a

\* math.floor
Floor(r) == r.n \div r.d

\* round(x): to the nearest integer, a tie to the even one
PyRound(r) ==
    LET f == Floor(r)
        twice == 2 * (r.n - f * r.d)
    IN  IF twice > r.d THEN f + 1
        ELSE IF twice < r.d THEN f
        ELSE IF f % 2 = 0 THEN f ELSE f + 1

\* round(x, 1)
PyRound1(r) == Rat(PyRound(RatMul(r, Num(10))), 10)

\* Python floats are binary: a running sum such as 13 * (30/14 * 0.7) is the
\* exact sum plus a rounding error far smaller than the distance between two
\* distinct sums.  The error decides round() only where the exact sum is a
\* tie; fp is its sign there: -1 below the tie, 1 above it, 0 the tie itself.
FloatErr == {-1, 0, 1}

\* round(x) of a float sum with exact value r
PyRoundSum(r, fp) ==
    IF 2 * (r.n - Floor(r) * r.d) = r.d /\ fp # 0
    THEN IF fp < 0 THEN Floor(r) ELSE Floor(r) + 1
    ELSE PyRound(r)

\* round(x, 1) of a float sum with exact value r
PyRoundSum1(r, fp) == Rat(PyRoundSum(RatMul(r, Num(10)), fp), 10)

----------------------------------------------------------------------------
(* Python dicts *)

\* d.get(k, default) on an insertion-ordered dict
DictGet(d, k, default) ==
    IF \E i \in 1..Len(d) : d[i][1] = k
    THEN d[CHOOSE i \in 1..Len(d) : d[i][1] = k][2]
    ELSE default

\* d.get(k, default) on an analysis dict
Get(d, k, default) == IF k \in DOMAIN d THEN d[k] ELSE default

----------------------------------------------------------------------------
(* app/services/scoring_service.py *)

\* a faulty variant: weak above moderate
SKILL_STRENGTH_MULTIPLIER_Swapped ==
    << <<strong, Rat(10, 10)>>, <<moderate, Rat(3, 10)>>,
       <<weak, Rat(7, 10)>>, <<missing, Rat(0, 10)>> >>

SKILL_STRENGTH_MULTIPLIER ==
    << <<strong, Rat(10, 10)>>, <<moderate, Rat(7, 10)>>,
       <<weak, Rat(3, 10)>>, <<missing, Rat(0, 10)>> >>

\* ScoringService.__init__
ScoringService ==
    [base_score |-> 40, must_have_max |-> 30, nice_to_have_max |-> 5,
     suitability_max |-> 25, formatting_max |-> 3]

\* 0.49999999999999994, the double next below 0.5: 0.5 - 2^-54
BelowHalf == [n |-> 1, d |-> 2, ulps |-> -1]

\* years + 0.5 in binary floating point.  The sum of one of the model's
\* rationals and 0.5 is the exact sum.  The sum of the double next below 0.5
\* and 0.5 is 1 - 2^-54, halfway between the doubles 1 - 2^-53 and 1.0, and
\* the addition returns the one of even mantissa, 1.0.
AddHalf(years) == IF years = BelowHalf THEN Num(1) ELSE RatAdd(years, Rat(5, 10))

round_experience(self, years) == Floor(AddHalf(years))

\* the strength of one option of an OR group (the body of the for loop up to
\* the multiplier lookup)
OptionStrength(option, skill_strength) ==
    LET exact == lower(DictGet(skill_strength, option, <<>>))
        hits == {i \in 1..Len(skill_strength) :
                    lower(skill_strength[i][1]) = lower(option)}
        first == CHOOSE i \in hits : \A j \in hits : i <= j
        found == IF exact # <<>> THEN exact
                 ELSE IF hits # {} THEN lower(skill_strength[first][2])
                 ELSE <<>>
    IN  IF found = <<>> THEN missing ELSE found

\* a faulty variant: best replaced when the multiplier is greater or equal
BetterOf_OrEqual(best, option, strength, multiplier) ==
    IF RatLe(best[3], multiplier) THEN <<option, strength, multiplier>> ELSE best

\* the end of the loop body: best replaced when the multiplier is greater
BetterOf(best, option, strength, multiplier) ==
    IF RatLt(best[3], multiplier) THEN <<option, strength, multiplier>> ELSE best

\* the loop body for one option whose strength is known
BestSkillStep(best, option, strength) ==
    BetterOf(best, option, strength,
             DictGet(SKILL_STRENGTH_MULTIPLIER, strength, Num(0)))

RECURSIVE BestSkillLoop(_, _, _, _)
BestSkillLoop(options, skill_strength, i, best) ==
    IF i > Len(options) THEN best
    ELSE BestSkillLoop(options, skill_strength, i + 1,
             BestSkillStep(best, options[i],
                           OptionStrength(options[i], skill_strength)))

\* returns <<best_skill, best_strength, best_multiplier>>
get_best_skill_from_group(self, options, skill_strength) ==
    BestSkillLoop(options, skill_strength, 1, <<None, missing, Num(0)>>)

\* '/'.join(options)
RECURSIVE JoinSlash(_)
JoinSlash(options) ==
    IF Len(options) = 0 THEN <<>>
    ELSE IF Len(options) = 1 THEN options[1]
    ELSE options[1] \o <<"/">> \o JoinSlash(Tail(options))

\* f"{skill_name} ({'/'.join(options)})"
DisplayName(skill_name, options) ==
    skill_name \o <<" ", "(">> \o JoinSlash(options) \o <<")">>

\* skill_strength.get(name, "missing").lower(): the strength of a single skill
SingleStrength(skill_strength, name) == lower(DictGet(skill_strength, name, missing))

\* A loop iteration yields [add, recs]: the points added to the category's
\* score and the records appended to its breakdown.

\* must-have, single skill of known strength
MustHaveSingle(points_per_skill, skill, strength) ==
    LET skill_points ==
            RatMul(points_per_skill,
                   DictGet(SKILL_STRENGTH_MULTIPLIER, strength, Num(0)))
    IN  [add |-> skill_points,
         recs |-> << [skill |-> skill,
                      strength |-> strength,
                      points |-> PyRound1(skill_points),
                      max_points |-> PyRound1(points_per_skill)] >>]

\* must-have, OR group whose best option is known
MustHaveGroup(points_per_skill, skill_name, options, best) ==
    LET skill_points == RatMul(points_per_skill, best[3])
    IN  [add |-> skill_points,
         recs |-> << [skill |-> DisplayName(skill_name, options),
                      strength |-> best[2],
                      matched_option |-> best[1],
                      points |-> PyRound1(skill_points),
                      max_points |-> PyRound1(points_per_skill),
                      is_or_group |-> TRUE] >>]

\* the dict branch of the must-have loop body
MustHaveDict(self, points_per_skill, d, skill_type, skill_name, skill_strength) ==
    IF skill_type = "or_group"
    THEN MustHaveGroup(points_per_skill, skill_name, Get(d, "options", <<>>),
             get_best_skill_from_group(self, Get(d, "options", <<>>), skill_strength))
    ELSE MustHaveSingle(points_per_skill, skill_name,
             SingleStrength(skill_strength, skill_name))

\* one iteration of the must-have loop
MustHaveStep(self, points_per_skill, skill_item, skill_strength) ==
    IF skill_item.py = "str" THEN
        MustHaveSingle(points_per_skill, skill_item.s,
            SingleStrength(skill_strength, skill_item.s))
    ELSE IF skill_item.py = "dict" THEN
        MustHaveDict(self, points_per_skill, skill_item.d,
            Get(skill_item.d, "type", "single"),
            Get(skill_item.d, "skill", <<"S", "k", "i", "l", "l">>),
            skill_strength)
    ELSE [add |-> Num(0), recs |-> <<>>]

\* nice-to-have, single skill or OR group: the share when has_skill, else 0
NiceToHavePoints(points_per_skill, has_skill) ==
    IF has_skill THEN points_per_skill ELSE Num(0)

NiceToHaveSingle(points_per_skill, skill, has_skill) ==
    [add |-> NiceToHavePoints(points_per_skill, has_skill),
     recs |-> << [skill |-> skill,
                  has_skill |-> has_skill,
                  points |-> PyRound1(NiceToHavePoints(points_per_skill, has_skill)),
                  max_points |-> PyRound1(points_per_skill)] >>]

NiceToHaveGroup(points_per_skill, skill_name, options, best, has_skill) ==
    [add |-> NiceToHavePoints(points_per_skill, has_skill),
     recs |-> << [skill |-> DisplayName(skill_name, options),
                  has_skill |-> has_skill,
                  matched_option |-> best[1],
                  points |-> PyRound1(NiceToHavePoints(points_per_skill, has_skill)),
                  max_points |-> PyRound1(points_per_skill),
                  is_or_group |-> TRUE] >>]

\* has_skill of an OR group whose best option is known
GroupHasSkill(best) == best[2] # missing

NiceToHaveBest(points_per_skill, skill_name, options, best) ==
    NiceToHaveGroup(points_per_skill, skill_name, options, best, GroupHasSkill(best))

NiceToHaveDict(self, points_per_skill, d, skill_type, skill_name, skill_strength) ==
    IF skill_type = "or_group"
    THEN NiceToHaveBest(points_per_skill, skill_name, Get(d, "options", <<>>),
             get_best_skill_from_group(self, Get(d, "options", <<>>), skill_strength))
    ELSE NiceToHaveSingle(points_per_skill, skill_name,
             SingleStrength(skill_strength, skill_name) # missing)

\* one iteration of the nice-to-have loop
NiceToHaveStep(self, points_per_skill, skill_item, skill_strength) ==
    IF skill_item.py = "str" THEN
        NiceToHaveSingle(points_per_skill, skill_item.s,
            SingleStrength(skill_strength, skill_item.s) # missing)
    ELSE IF skill_item.py = "dict" THEN
        NiceToHaveDict(self, points_per_skill, skill_item.d,
            Get(skill_item.d, "type", "single"),
            Get(skill_item.d, "skill", <<"S", "k", "i", "l", "l">>),
            skill_strength)
    ELSE [add |-> Num(0), recs |-> <<>>]

\* the category's score and breakdown after one more iteration
Accumulate(acc, step) ==
    [score |-> RatAdd(acc.score, step.add), recs |-> acc.recs \o step.recs]

\* The must-have loop from item i on; acc = [score, recs] holds
\* must_have_score and must_have_breakdown.
RECURSIVE MustHaveLoop(_, _, _, _, _, _)
MustHaveLoop(self, points_per_skill, must_have_skills, skill_strength, i, acc) ==
    IF i > Len(must_have_skills) THEN acc
    ELSE MustHaveLoop(self, points_per_skill, must_have_skills, skill_strength,
             i + 1,
             Accumulate(acc, MustHaveStep(self, points_per_skill,
                                          must_have_skills[i], skill_strength)))

RECURSIVE NiceToHaveLoop(_, _, _, _, _, _)
NiceToHaveLoop(self, points_per_skill, nice_to_have_skills, skill_strength, i, acc) ==
    IF i > Len(nice_to_have_skills) THEN acc
    ELSE NiceToHaveLoop(self, points_per_skill, nice_to_have_skills, skill_strength,
             i + 1,
             Accumulate(acc, NiceToHaveStep(self, points_per_skill,
                                            nice_to_have_skills[i], skill_strength)))

\* a faulty variant: an entry for a category without requirements too
CategoryEntry_Always(requirements, category, max_points, acc, fp) ==
    << [category |-> category,
        total_points |-> PyRoundSum1(acc.score, fp),
        max_points |-> Num(max_points),
        skills |-> acc.recs] >>

\* the breakdown entry of a category that has requirements
CategoryEntry(requirements, category, max_points, acc, fp) ==
    IF Len(requirements) > 0
    THEN << [category |-> category,
             total_points |-> PyRoundSum1(acc.score, fp),
             max_points |-> Num(max_points),
             skills |-> acc.recs] >>
    ELSE <<>>

\* a faulty variant: the category scores returned as they were accumulated
SkillsReturn_Unrounded(self, must_have_skills, nice_to_have_skills, must, nice, fp) ==
    <<must.score, nice.score,
      CategoryEntry(must_have_skills, "Must-Have Skills (Technical)",
                    self.must_have_max, must, fp)
      \o CategoryEntry(nice_to_have_skills, "Nice-to-Have Skills (Bonus)",
                       self.nice_to_have_max, nice, fp)>>

\* the return statement, given what the two loops left
SkillsReturn(self, must_have_skills, nice_to_have_skills, must, nice, fp) ==
    <<Num(PyRoundSum(must.score, fp)), Num(PyRoundSum(nice.score, fp)),
      CategoryEntry(must_have_skills, "Must-Have Skills (Technical)",
                    self.must_have_max, must, fp)
      \o CategoryEntry(nice_to_have_skills, "Nice-to-Have Skills (Bonus)",
                       self.nice_to_have_max, nice, fp)>>

\* returns <<round(must_have_score), round(nice_to_have_bonus), breakdown>>;
\* fp is the sign of the floats' rounding error (see PyRoundSum)
score_skills(self, must_have_skills, nice_to_have_skills, skill_strength, fp) ==
    SkillsReturn(self, must_have_skills, nice_to_have_skills,
        IF Len(must_have_skills) > 0
        THEN MustHaveLoop(self,
                 RatDiv(Num(self.must_have_max), Num(Len(must_have_skills))),
                 must_have_skills, skill_strength, 1,
                 [score |-> Num(0), recs |-> <<>>])
        ELSE [score |-> Num(0), recs |-> <<>>],
        IF Len(nice_to_have_skills) > 0
        THEN NiceToHaveLoop(self,
                 RatDiv(Num(self.nice_to_have_max), Num(Len(nice_to_have_skills))),
                 nice_to_have_skills, skill_strength, 1,
                 [score |-> Num(0), recs |-> <<>>])
        ELSE [score |-> Num(0), recs |-> <<>>],
        fp)

\* a faulty variant: the scaled value left as it is
ClampSuitability_Unclamped(self, scaled) == scaled

\* max(0, min(self.suitability_max, scaled))
ClampSuitability(self, scaled) == PyMax(Num(0), PyMin(Num(self.suitability_max), scaled))

calculate_suitability_score(self, engineering_depth) ==
    ClampSuitability(self,
        Num(PyRound(RatMul(engineering_depth,
                           RatDiv(Num(self.suitability_max), Num(15))))))

\* a faulty variant: no tolerance, a candidate below the requirement is warned
CompareExperience_NoTolerance(candidate_total, required_total, tolerance) ==
    IF candidate_total >= required_total THEN
        << << [text |-> "Has {candidate_total}+ years (required: {required_total})",
               mark |-> "ok",
               candidate_total |-> candidate_total,
               required_total |-> required_total] >>,
           <<>> >>
    ELSE
        << << [text |-> "Has {candidate_total} years (required: {required_total})",
               mark |-> "warning",
               candidate_total |-> candidate_total,
               required_total |-> required_total] >>,
           << [text |-> "Experience gap: {gap} years below requirement",
               gap |-> required_total - candidate_total] >> >>

\* the comparison of the rounded totals; a formatted message is its template
\* with the numbers it prints
CompareExperience(candidate_total, required_total, tolerance) ==
    IF candidate_total >= required_total THEN
        << << [text |-> "Has {candidate_total}+ years (required: {required_total})",
               mark |-> "ok",
               candidate_total |-> candidate_total,
               required_total |-> required_total] >>,
           <<>> >>
    ELSE IF candidate_total >= required_total - tolerance THEN
        << << [text |-> "Has {candidate_total} years (required: {required_total}, within tolerance)",
               mark |-> "~",
               candidate_total |-> candidate_total,
               required_total |-> required_total] >>,
           <<>> >>
    ELSE
        << << [text |-> "Has {candidate_total} years (required: {required_total})",
               mark |-> "warning",
               candidate_total |-> candidate_total,
               required_total |-> required_total] >>,
           << [text |-> "Experience gap: {gap} years below requirement",
               gap |-> required_total - candidate_total] >> >>

\* returns <<explanations, notes>>
check_experience(self, candidate_total, required_total, relevant_required, relevant_candidate) ==
    CompareExperience(round_experience(self, candidate_total),
                      round_experience(self, required_total), 1)

\* a faulty variant: the total rounded but not clamped
ClampTotal_Unclamped(total) == PyRound1(total)

\* round(min(100, max(0, total)), 1)
ClampTotal(total) == PyRound1(PyMin(Num(100), PyMax(Num(0), total)))

\* a faulty variant: the formatting score added into the total
calculate_final_score_Formatting(self, must_have_score, nice_to_have_score, suitability_score, formatting_score) ==
    ClampTotal(RatAdd(RatAdd(RatAdd(RatAdd(Num(self.base_score), must_have_score),
                                    nice_to_have_score), suitability_score),
                      formatting_score))

calculate_final_score(self, must_have_score, nice_to_have_score, suitability_score, formatting_score) ==
    ClampTotal(RatAdd(RatAdd(RatAdd(Num(self.base_score), must_have_score),
                             nice_to_have_score), suitability_score))

\* the dict score_candidate returns
CandidateReturn(self, skills, suitability_score, formatting_score, exp, final_score) ==
    [final_score |-> final_score,
     breakdown |->
        [base_score |-> Num(self.base_score),
         must_have_score |-> skills[1],
         nice_to_have_score |-> skills[2],
         suitability_score |-> suitability_score,
         formatting_score |-> formatting_score,
         total |-> final_score,
         skills_breakdown |-> skills[3],
         experience_notes |-> exp[1],
         notes |-> exp[2]]]

\* a faulty variant: a point taken off for an experience gap
CandidateFinal_Penalty(self, skills, suitability_score, formatting_score, exp) ==
    CandidateReturn(self, skills, suitability_score, formatting_score, exp,
        calculate_final_score(self, skills[1], skills[2],
                              RatAdd(suitability_score, Num(0 - Len(exp[2]))),
                              formatting_score))

\* score_candidate from the final score calculation on
CandidateFinal(self, skills, suitability_score, formatting_score, exp) ==
    CandidateReturn(self, skills, suitability_score, formatting_score, exp,
        calculate_final_score(self, skills[1], skills[2], suitability_score,
                              formatting_score))

\* a faulty variant: an absent engineering_depth_score taken for 0
score_candidate_DepthZero(self, resume_analysis, jd_analysis, fp) ==
    CandidateFinal(self,
        score_skills(self,
            Get(jd_analysis, "must_have_skills", <<>>),
            Get(jd_analysis, "nice_to_have_skills", <<>>),
            Get(resume_analysis, "skill_strength", <<>>), fp),
        calculate_suitability_score(self,
            Get(resume_analysis, "engineering_depth_score", Num(0))),
        Get(resume_analysis, "formatting_score", Num(2)),
        check_experience(self,
            Get(resume_analysis, "estimated_total_experience", Num(0)),
            Get(jd_analysis, "total_experience_required", Num(0)),
            Get(jd_analysis, "relevant_experience_required", <<>>),
            Get(resume_analysis, "estimated_relevant_experience", <<>>)))

score_candidate(self, resume_analysis, jd_analysis, fp) ==
    CandidateFinal(self,
        score_skills(self,
            Get(jd_analysis, "must_have_skills", <<>>),
            Get(jd_analysis, "nice_to_have_skills", <<>>),
            Get(resume_analysis, "skill_strength", <<>>), fp),
        calculate_suitability_score(self,
            Get(resume_analysis, "engineering_depth_score", Num(8))),
        Get(resume_analysis, "formatting_score", Num(2)),
        check_experience(self,
            Get(resume_analysis, "estimated_total_experience", Num(0)),
            Get(jd_analysis, "total_experience_required", Num(0)),
            Get(jd_analysis, "relevant_experience_required", <<>>),
            Get(resume_analysis, "estimated_relevant_experience", <<>>)))

----------------------------------------------------------------------------
(* app/routers/screening.py: names *)

Min(S) == CHOOSE x \in S : \A y \in S : x <= y

Max(S) == CHOOSE x \in S : \A y \in S : y <= x

\* the ASCII characters that \s of a regular expression matches and that
\* str.strip() and str.split() take for white space
Whitespace == {" ", "\t", "\n", "\r", "\f"}

\* the class [_\-\s]
IsSeparator(c) == c \in {"_", "-"} \cup Whitespace

\* Path(filename).name: what follows the last '/'
PathName(filename) ==
    SubSeq(filename,
           Max({0} \cup {i \in 1..Len(filename) : filename[i] = "/"}) + 1,
           Len(filename))

\* the stem of a file name whose last '.' is at index dot (0: none): the
\* name up to that '.', unless the '.' starts or ends the name
StemOf(name, dot) ==
    IF 1 < dot /\ dot < Len(name) THEN SubSeq(name, 1, dot - 1) ELSE name

\* Path(filename).stem
PathStem(filename) ==
    StemOf(PathName(filename),
           Max({0} \cup {i \in 1..Len(PathName(filename)) : PathName(filename)[i] = "."}))

\* the suffixes normalize_name removes, in its order
Suffixes ==
    << <<"_", "r", "e", "s", "u", "m", "e">>,
       <<"_", "c", "v">>,
       <<"_", "i", "n", "t", "e", "r", "v", "i", "e", "w">>,
       <<"_", "a", "u", "d", "i", "o">>,
       <<"_", "r", "e", "c", "o", "r", "d", "i", "n", "g">>,
       <<"r", "e", "s", "u", "m", "e">>,
       <<"c", "v">> >>

\* the literal lit matches text at index q, letter case ignored
MatchesAt(text, q, lit) ==
    /\ q + Len(lit) - 1 <= Len(text)
    /\ \A k \in 1..Len(lit) : LowerChar(text[q + k - 1]) = LowerChar(lit[k])

\* the first index from q on that holds no separator
RECURSIVE SeparatorsEnd(_, _)
SeparatorsEnd(text, q) ==
    IF q <= Len(text) /\ IsSeparator(text[q]) THEN SeparatorsEnd(text, q + 1) ELSE q

\* Where [_\-\s]*lit may begin lit for a match that starts at p: the greedy
\* run of separators gives characters back until lit matches.
LiteralStarts(text, p, lit) ==
    {r \in p..SeparatorsEnd(text, p) : MatchesAt(text, r, lit)}

\* re.sub(rf'[_\-\s]*{lit}[_\-\s]*', '', text, flags=re.IGNORECASE) from
\* index p on: the leftmost match is dropped, the scan goes on behind it
RECURSIVE RemoveSuffix(_, _, _)
RemoveSuffix(text, p, lit) ==
    IF p > Len(text) THEN <<>>
    ELSE IF LiteralStarts(text, p, lit) = {}
    THEN <<text[p]>> \o RemoveSuffix(text, p + 1, lit)
    ELSE RemoveSuffix(text,
             SeparatorsEnd(text, Max(LiteralStarts(text, p, lit)) + Len(lit)), lit)

\* the for loop over the suffixes, from suffix i on
RECURSIVE RemoveSuffixes(_, _)
RemoveSuffixes(name, i) ==
    IF i > Len(Suffixes) THEN name
    ELSE RemoveSuffixes(RemoveSuffix(name, 1, Suffixes[i]), i + 1)

\* the first index from q on that holds neither '_' nor '-'
RECURSIVE DashesEnd(_, _)
DashesEnd(text, q) ==
    IF q <= Len(text) /\ text[q] \in {"_", "-"} THEN DashesEnd(text, q + 1) ELSE q

\* re.sub(r'[_\-]+', ' ', text) from index p on
RECURSIVE CollapseDashes(_, _)
CollapseDashes(text, p) ==
    IF p > Len(text) THEN <<>>
    ELSE IF text[p] \in {"_", "-"}
    THEN <<" ">> \o CollapseDashes(text, DashesEnd(text, p))
    ELSE <<text[p]>> \o CollapseDashes(text, p + 1)

\* the part of text between the indices in kept, all of them
Between(text, kept) ==
    IF kept = {} THEN <<>> ELSE SubSeq(text, Min(kept), Max(kept))

\* str.strip()
strip(text) == Between(text, {i \in 1..Len(text) : text[i] \notin Whitespace})

normalize_name(filename) ==
    strip(lower(CollapseDashes(RemoveSuffixes(PathStem(filename), 1), 1)))

\* word1 in word2
IsSubstring(word1, word2) ==
    \E i \in 0..(Len(word2) - Len(word1)) : SubSeq(word2, i + 1, i + Len(word1)) = word1

\* a faulty variant: words of any length
partial_word_match_AnyLength(word1, word2) ==
    IsSubstring(word1, word2) \/ IsSubstring(word2, word1)

partial_word_match(word1, word2) ==
    IF Len(word1) < 3 \/ Len(word2) < 3 THEN FALSE
    ELSE IsSubstring(word1, word2) \/ IsSubstring(word2, word1)

\* set(name.split()): the maximal runs of characters other than white space
WordSet(name) ==
    {SubSeq(name, ij[1], ij[2]) : ij \in
        {ij \in (1..Len(name)) \X (1..Len(name)) :
            /\ ij[1] <= ij[2]
            /\ \A k \in ij[1]..ij[2] : name[k] \notin Whitespace
            /\ ij[1] = 1 \/ name[ij[1] - 1] \in Whitespace
            /\ ij[2] = Len(name) \/ name[ij[2] + 1] \in Whitespace}}

----------------------------------------------------------------------------
(* Inputs of the scoring service *)

MaxItems == 2           \* longest requirement list built from arbitrary items
MaxRepeat == 18         \* longest run of one repeated requirement
MaxMapLen == 2          \* most entries of a strength map given in any order
MaxDepthExcess == 3     \* how far engineering depth leaves its range 0..15

s_A == <<"A">>
s_a == <<"a">>
s_B == <<"B">>
s_Db == <<"D", "b">>
s_Python == <<"P", "y", "t", "h", "o", "n">>
s_python == <<"p", "y", "t", "h", "o", "n">>
s_MySQL == <<"M", "y", "S", "Q", "L">>
s_MongoDB == <<"M", "o", "n", "g", "o", "D", "B">>
s_mysql == <<"m", "y", "s", "q", "l">>
s_mongodb == <<"m", "o", "n", "g", "o", "d", "b">>
s_Strong == <<"S", "t", "r", "o", "n", "g">>
s_expert == <<"e", "x", "p", "e", "r", "t">>

SkillNames == {s_A, s_a, s_B}

Tiers == {strong, moderate, weak, missing}

\* strength values as upstream analysis may spell them: the four tiers, a
\* capitalised tier and a word that is no tier
StrengthValues == Tiers \cup {s_Strong, s_expert}

\* sequences over S of length at most n
RECURSIVE SeqsUpTo(_, _)
SeqsUpTo(S, n) ==
    IF n = 0 THEN {<<>>}
    ELSE LET shorter == SeqsUpTo(S, n - 1)
         IN  shorter \cup {Append(q, x) : q \in {r \in shorter : Len(r) = n - 1}, x \in S}

\* strength maps given in any key order: at most MaxMapLen entries, distinct keys
StrengthMaps ==
    {m \in SeqsUpTo(SkillNames \X StrengthValues, MaxMapLen) :
        \A i, j \in 1..Len(m) : i # j => m[i][1] # m[j][1]}

\* the entry k: v of a dict, none when v is None
Entry(k, v) == IF v = None THEN <<>> ELSE << <<k, v>> >>

\* strength maps with keys among A, a, B, in that order
SkillMaps ==
    {Entry(s_A, va) \o Entry(s_a, vl) \o Entry(s_B, vb) :
        va \in StrengthValues \cup {None},
        vl \in {strong, None},
        vb \in {strong, moderate, None}}

\* strength maps with the keys A and B and a tier for each
TierMaps == {<< <<s_A, va>>, <<s_B, vb>> >> : va \in Tiers, vb \in Tiers}

OptionLists == SeqsUpTo(SkillNames, 2)

StrItem(name) == [py |-> "str", s |-> name]

DictItem(d) == [py |-> "dict", d |-> d]

OrGroup(name, options) ==
    DictItem([type |-> "or_group", skill |-> name, options |-> options])

\* an item that is neither a str nor a dict
MalformedItem == [py |-> "int", v |-> 42]

SingleItems ==
    {StrItem(s_A), StrItem(s_a), DictItem([skill |-> s_A]),
     DictItem([type |-> "single", skill |-> s_B])}

GroupItems ==
    {OrGroup(s_Db, <<s_a, s_B>>), OrGroup(s_Db, <<s_A>>),
     DictItem([type |-> "or_group"])}

Items == SingleItems \cup GroupItems \cup {MalformedItem}

RECURSIVE Repeat(_, _)
Repeat(x, p) == IF p = 0 THEN <<>> ELSE <<x>> \o Repeat(x, p - 1)

\* the requirement lists of a score_skills call: one list of arbitrary items
\* and the other empty, or one item in each
SkillLists ==
    {<<m, <<>>>> : m \in SeqsUpTo(Items, MaxItems)}
    \cup {<<<<>>, n>> : n \in SeqsUpTo(Items, MaxItems)}
    \cup {<<<<x>>, <<y>>>> : x \in SingleItems, y \in GroupItems \cup {MalformedItem}}

\* long lists: one requirement repeated, then at most one other item
LongLists ==
    {Repeat(x, p) \o t :
        x \in {StrItem(s_A), OrGroup(s_Db, <<s_B, s_a>>)},
        p \in 1..MaxRepeat,
        t \in SeqsUpTo({StrItem(s_B), MalformedItem}, 1)}

\* the inputs the specification's examples name
ExampleGroups ==
    { << <<s_MySQL, s_MongoDB>>, << <<s_mongodb, moderate>>, <<s_mysql, strong>> >> >>,
      << <<s_A, s_B>>, << <<s_a, strong>>, << <<"b">>, strong>> >> >> }

ExampleSkills ==
    { [must |-> << DictItem([skill |-> s_Python]) >>, nice |-> <<>>,
       strength |-> << <<s_python, weak>> >>] }

\* floats of any magnitude; no sum of three of them ends in a 5 at the second
\* decimal, so rounding to one decimal never meets a tie
Magnitudes ==
    {Num(-1000), Rat(-4006, 100), Num(-1), Num(0), Rat(4, 100), Num(9),
     Rat(2996, 100), Num(30), Rat(6004, 100), Num(1000)}

Depths == (0 - MaxDepthExcess)..(15 + MaxDepthExcess)

Formattings == {Num(0), Num(1), Num(2), Num(3)}

SkillParts ==
    {[must |-> m, nice |-> n, strength |-> s] :
        m \in SeqsUpTo({StrItem(s_A), DictItem([skill |-> s_a]), OrGroup(s_Db, <<s_A, s_B>>)}, 1),
        n \in SeqsUpTo({StrItem(s_B), MalformedItem}, 1),
        s \in TierMaps \cup {<<>>}}
    \cup ExampleSkills

\* <<estimated_total_experience, total_experience_required>>
ExperiencePairs ==
    { <<Rat(45, 10), Num(5)>>, <<Num(2), Rat(449, 100)>>, <<Num(3), Num(6)>> }

ResumeKeys ==
    {"skill_strength", "engineering_depth_score", "formatting_score",
     "estimated_total_experience", "estimated_relevant_experience"}

JobKeys ==
    {"must_have_skills", "nice_to_have_skills", "total_experience_required",
     "relevant_experience_required"}

\* the resume analysis with the given values, holding the keys in present
ResumeAnalysis(part, depth, formatting, experience, present) ==
    [k \in ResumeKeys \cap present |->
        [skill_strength |-> part.strength,
         engineering_depth_score |-> depth,
         formatting_score |-> formatting,
         estimated_total_experience |-> experience,
         estimated_relevant_experience |-> <<>>][k]]

JobAnalysis(part, experience, present) ==
    [k \in JobKeys \cap present |->
        [must_have_skills |-> part.must,
         nice_to_have_skills |-> part.nice,
         total_experience_required |-> experience,
         relevant_experience_required |-> <<>>][k]]

\* which keys upstream analysis supplies: all of them, or all but the
\* formatting score
KeySets == {ResumeKeys \cup JobKeys, (ResumeKeys \cup JobKeys) \ {"formatting_score"}}

----------------------------------------------------------------------------
(* The scoring service: one call at a time on a fresh instance (get_services   *)
(* builds a ScoringService per request), then score_candidate again for the    *)
(* next resume analysis of the same request.                                   *)

NoCall == [fn |-> "none"]

MaxThreads == 2         \* most score_candidate calls in progress at once

Threads == 1..MaxThreads

\* no thread is in score_candidate
NoFrames == [t \in Threads |-> [pc |-> "idle"]]

GroupingIdle ==
    /\ resumes = <<>>
    /\ audio_files = <<>>
    /\ candidates = <<>>
    /\ pc = "idle"
    /\ ri = 1
    /\ ai = 1
    /\ jd = None
    /\ result = None
    /\ results = <<>>
    /\ trace = <<>>

Init ==
    /\ scoring = ScoringService
    /\ call = NoCall
    /\ prev = NoCall
    /\ GroupingIdle
    /\ frames = NoFrames

Rest == UNCHANGED <<scoring, prev, resumes, audio_files, candidates, pc, ri, ai, jd, result, results, trace, frames>>

CallGetBestSkillFromGroup ==
    /\ call = NoCall
    /\ \E in \in (OptionLists \X StrengthMaps) \cup ExampleGroups :
          call' = [fn |-> "get_best_skill_from_group",
                   args |-> in,
                   ret |-> get_best_skill_from_group(scoring, in[1], in[2])]
    /\ Rest

CallScoreSkills ==
    /\ call = NoCall
    /\ \E lists \in SkillLists, skill_strength \in SkillMaps, fp \in FloatErr :
          call' = [fn |-> "score_skills",
                   args |-> <<lists[1], lists[2], skill_strength>>,
                   fp |-> fp,
                   ret |-> score_skills(scoring, lists[1], lists[2], skill_strength, fp)]
    /\ Rest

CallScoreSkillsLong ==
    /\ call = NoCall
    /\ \E long \in LongLists, skill_strength \in TierMaps, which \in {1, 2},
          fp \in FloatErr :
          LET must == IF which = 1 THEN long ELSE <<>>
              nice == IF which = 2 THEN long ELSE <<>>
          IN  call' = [fn |-> "score_skills",
                       args |-> <<must, nice, skill_strength>>,
                       fp |-> fp,
                       ret |-> score_skills(scoring, must, nice, skill_strength, fp)]
    /\ Rest

CallCalculateSuitabilityScore ==
    /\ call = NoCall
    /\ \E d \in Depths :
          call' = [fn |-> "calculate_suitability_score",
                   args |-> <<Num(d)>>,
                   ret |-> calculate_suitability_score(scoring, Num(d))]
    /\ Rest

CallCalculateFinalScore ==
    /\ call = NoCall
    /\ \E m \in Magnitudes, n \in Magnitudes, s \in Magnitudes, f \in {Num(2), Num(1000)} :
          call' = [fn |-> "calculate_final_score",
                   args |-> <<m, n, s, f>>,
                   ret |-> calculate_final_score(scoring, m, n, s, f)]
    /\ Rest

CallScoreCandidate ==
    /\ call = NoCall
    /\ \E part \in SkillParts,
          depth \in {Num(6), Num(15 + MaxDepthExcess)},
          experience \in ExperiencePairs,
          present \in KeySets,
          fp \in FloatErr :
          LET resume_analysis == ResumeAnalysis(part, depth, Num(2), experience[1], present)
              jd_analysis == JobAnalysis(part, experience[2], present)
          IN  call' = [fn |-> "score_candidate",
                       args |-> <<resume_analysis, jd_analysis>>,
                       fp |-> fp,
                       ret |-> score_candidate(scoring, resume_analysis, jd_analysis, fp)]
    /\ Rest

\* dict d with d[k] = v
SetField(d, k, v) == [x \in DOMAIN d \cup {k} |-> IF x = k THEN v ELSE d[x]]

\* the next candidate of the request: the same job analysis, a resume analysis
\* that differs from the last one in formatting_score only (the same float
\* additions, hence the same fp)
ScoreNextFormatting ==
    /\ call.fn = "score_candidate"
    /\ prev = NoCall
    /\ \E f \in Formattings :
          LET resume_analysis == SetField(call.args[1], "formatting_score", f)
              jd_analysis == call.args[2]
          IN  /\ resume_analysis # call.args[1]
              /\ call' = [fn |-> "score_candidate",
                          args |-> <<resume_analysis, jd_analysis>>,
                          fp |-> call.fp,
                          ret |-> score_candidate(scoring, resume_analysis, jd_analysis,
                                                  call.fp)]
    /\ prev' = call
    /\ UNCHANGED <<scoring, resumes, audio_files, candidates, pc, ri, ai,
                   jd, result, results, trace, frames>>

\* <<argument, key, value>>: an experience field of the resume analysis (1) or
\* of the job analysis (2) and a value for it
ExperienceChanges ==
    { <<1, "estimated_total_experience", Num(0)>>,
      <<1, "estimated_total_experience", Rat(45, 10)>>,
      <<2, "total_experience_required", Num(0)>>,
      <<2, "total_experience_required", Num(9)>>,
      <<1, "estimated_relevant_experience", << <<s_A, Num(3)>> >> >>,
      <<2, "relevant_experience_required", << <<s_A, Num(5)>> >> >> }

\* the next candidate or the next job of the same shape: analyses that differ
\* from the last call's in one experience field only (the same float
\* additions, hence the same fp)
ScoreNextExperience ==
    /\ call.fn = "score_candidate"
    /\ prev = NoCall
    /\ \E change \in ExperienceChanges :
          LET resume_analysis ==
                  IF change[1] = 1 THEN SetField(call.args[1], change[2], change[3])
                  ELSE call.args[1]
              jd_analysis ==
                  IF change[1] = 2 THEN SetField(call.args[2], change[2], change[3])
                  ELSE call.args[2]
          IN  /\ <<resume_analysis, jd_analysis>> # call.args
              /\ call' = [fn |-> "score_candidate",
                          args |-> <<resume_analysis, jd_analysis>>,
                          fp |-> call.fp,
                          ret |-> score_candidate(scoring, resume_analysis, jd_analysis,
                                                  call.fp)]
    /\ prev' = call
    /\ UNCHANGED <<scoring, resumes, audio_files, candidates, pc, ri, ai,
                   jd, result, results, trace, frames>>

\* ScoringService: score_candidate and the score composer
Next ==
    \/ CallCalculateSuitabilityScore
    \/ CallCalculateFinalScore
    \/ CallScoreCandidate
    \/ ScoreNextFormatting
    \/ ScoreNextExperience

Spec == Init /\ [][Next]_vars

\* ScoringService: the skill evaluator
NextSkills ==
    \/ CallGetBestSkillFromGroup
    \/ CallScoreSkills
    \/ CallScoreSkillsLong

SpecSkills == Init /\ [][NextSkills]_vars

----------------------------------------------------------------------------
(* screen_candidates: the grouping pass over the uploads of one request *)

MaxResumes == 2         \* most resumes of a request
MaxAudio == 2           \* most audio files of a request

f_john_doe_resume ==
    <<"j", "o", "h", "n", "_", "d", "o", "e", "_", "r", "e", "s", "u", "m", "e", ".", "p", "d", "f">>

f_johnathan_smith_cv ==
    <<"j", "o", "h", "n", "a", "t", "h", "a", "n", "_", "s", "m", "i", "t", "h", "_", "c", "v", ".", "p", "d", "f">>

f_John_Doe ==
    <<"u", "p", "l", "o", "a", "d", "s", "/", "J", "o", "h", "n", "-", "D", "o", "e", ".", "p", "d", "f">>

f_john_cv ==
    <<"j", "o", "h", "n", "_", "c", "v", ".", "p", "d", "f">>

f_john_interview ==
    <<"j", "o", "h", "n", "_", "i", "n", "t", "e", "r", "v", "i", "e", "w", ".", "m", "p", "3">>

f_johndoe_interview ==
    <<"j", "o", "h", "n", "d", "o", "e", "_", "i", "n", "t", "e", "r", "v", "i", "e", "w", ".", "m", "p", "3">>

f_John_Doe_Interview ==
    <<"J", "o", "h", "n", " ", "D", "o", "e", " ", "I", "n", "t", "e", "r", "v", "i", "e", "w", ".", "m", "p", "3">>

f_jo_audio ==
    <<"j", "o", "_", "a", "u", "d", "i", "o", ".", "m", "p", "3">>

ResumeNames == {f_john_doe_resume, f_johnathan_smith_cv, f_John_Doe, f_john_cv}

AudioNames == {f_John_Doe_Interview, f_john_interview, f_johndoe_interview, f_jo_audio}

\* what read() returns for upload i of a list: each upload has its own content
Content(list, i) == <<list, i>>

\* candidates[name] as the resume loop creates it
NewCandidate(name) ==
    [name |-> name, resume_file |-> None, resume_content |-> None,
     audio_file |-> None, audio_content |-> None]

\* a faulty variant: the standalone bucket created without the audio file
StandaloneCandidate_Empty(name, filename, content) == NewCandidate(name)

\* candidates[name] as the audio loop creates it
StandaloneCandidate(name, filename, content) ==
    [name |-> name, resume_file |-> None, resume_content |-> None,
     audio_file |-> filename, audio_content |-> content]

\* name in candidates
HasKey(cands, name) == \E b \in 1..Len(cands) : cands[b].name = name

\* candidates with candidates[name] there
WithKey(cands, name) ==
    IF HasKey(cands, name) THEN cands ELSE Append(cands, NewCandidate(name))

\* a faulty variant: the first resume of a key kept
SetResume_KeepFirst(cands, name, filename, content) ==
    [b \in 1..Len(cands) |->
        IF cands[b].name = name /\ cands[b].resume_file = None
        THEN [cands[b] EXCEPT !.resume_file = filename, !.resume_content = content]
        ELSE cands[b]]

\* the two assignments that end the resume loop's body
SetResume(cands, name, filename, content) ==
    [b \in 1..Len(cands) |->
        IF cands[b].name = name
        THEN [cands[b] EXCEPT !.resume_file = filename, !.resume_content = content]
        ELSE cands[b]]

\* a faulty variant: the first audio of a bucket kept
SetAudio_KeepFirst(cands, at, filename, content) ==
    [b \in 1..Len(cands) |->
        IF b = at /\ cands[b].audio_file = None
        THEN [cands[b] EXCEPT !.audio_file = filename, !.audio_content = content]
        ELSE cands[b]]

\* the two assignments that attach an audio file to the bucket at index at
SetAudio(cands, at, filename, content) ==
    [b \in 1..Len(cands) |->
        IF b = at
        THEN [cands[b] EXCEPT !.audio_file = filename, !.audio_content = content]
        ELSE cands[b]]

\* a faulty variant: whole words only
PartialMatch_WordsOnly(audio_words, cand_words) == audio_words \cap cand_words # {}

\* the body of the loop over the candidates: the words overlap, or a word of
\* the audio name and a word of the candidate's name match partially
PartialMatch(audio_words, cand_words) ==
    \/ audio_words \cap cand_words # {}
    \/ \E aw \in audio_words, cw \in cand_words : partial_word_match(aw, cw)

\* a faulty variant: only the buckets that hold a resume are tried
PartialMatches_ResumesOnly(cands, audio_name) ==
    {b \in 1..Len(cands) :
        /\ cands[b].resume_file # None
        /\ PartialMatch(WordSet(audio_name), WordSet(cands[b].name))}

\* the buckets at which the loop over the candidates would break
PartialMatches(cands, audio_name) ==
    {b \in 1..Len(cands) : PartialMatch(WordSet(audio_name), WordSet(cands[b].name))}

\* the first of a set of indices, 0 when there is none
FirstOf(S) == IF S = {} THEN 0 ELSE Min(S)

\* a faulty variant: the exact match not tried first
MatchedBucket_NoExactMatch(cands, audio_name) ==
    FirstOf(PartialMatches(cands, audio_name))

\* The index of the bucket the audio loop attaches audio_name to, 0 when it
\* matches none: the bucket of that key, else the first in insertion order
\* at which the loop over the candidates breaks.
MatchedBucket(cands, audio_name) ==
    IF HasKey(cands, audio_name)
    THEN CHOOSE b \in 1..Len(cands) : cands[b].name = audio_name
    ELSE FirstOf(PartialMatches(cands, audio_name))

\* a faulty variant: the matched bucket takes the audio's key
AttachAudio_Rekey(cands, at, audio_name, filename, content) ==
    IF at # 0
    THEN [SetAudio(cands, at, filename, content) EXCEPT ![at].name = audio_name]
    ELSE Append(cands, StandaloneCandidate(audio_name, filename, content))

\* the audio loop's body once the bucket is known
AttachAudio(cands, at, audio_name, filename, content) ==
    IF at # 0 THEN SetAudio(cands, at, filename, content)
    ELSE Append(cands, StandaloneCandidate(audio_name, filename, content))

InitGroup ==
    /\ scoring = ScoringService
    /\ call = NoCall
    /\ prev = NoCall
    /\ resumes \in SeqsUpTo(ResumeNames, MaxResumes)
    /\ audio_files \in SeqsUpTo(AudioNames, MaxAudio)
    /\ candidates = <<>>
    /\ pc = "grouping"
    /\ ri = 1
    /\ ai = 1
    /\ jd = None
    /\ result = None
    /\ results = <<>>
    /\ trace = <<>>
    /\ frames = NoFrames

\* one iteration of the loop over the resumes
ProcessResume ==
    /\ pc = "grouping"
    /\ ri <= Len(resumes)
    /\ candidates' =
           SetResume(WithKey(candidates, normalize_name(resumes[ri])),
                     normalize_name(resumes[ri]), resumes[ri], Content("resumes", ri))
    /\ ri' = ri + 1
    /\ UNCHANGED <<scoring, call, prev, resumes, audio_files, pc, ai,
                   jd, result, results, trace, frames>>

\* one iteration of the loop over the audio files
ProcessAudio ==
    /\ pc = "grouping"
    /\ ri > Len(resumes)
    /\ ai <= Len(audio_files)
    /\ candidates' =
           AttachAudio(candidates,
                       MatchedBucket(candidates, normalize_name(audio_files[ai])),
                       normalize_name(audio_files[ai]), audio_files[ai],
                       Content("audio_files", ai))
    /\ ai' = ai + 1
    /\ UNCHANGED <<scoring, call, prev, resumes, audio_files, pc, ri,
                   jd, result, results, trace, frames>>

NextGroup ==
    \/ ProcessResume
    \/ ProcessAudio

SpecGroup == InitGroup /\ [][NextGroup]_vars

----------------------------------------------------------------------------
(* screen_candidates: the grouping pass and then the loop over the candidates, *)
(* one step per call on an outside service                                     *)

\* jd_analysis as lines 130-144 obtain it
ScreenJob ==
    JobAnalysis([must |-> <<StrItem(s_A)>>, nice |-> <<StrItem(s_B)>>], Num(3), JobKeys)

s_Unknown == <<"U", "n", "k", "n", "o", "w", "n">>

s_Jane_Roe == <<"J", "a", "n", "e", " ", "R", "o", "e">>

\* What analyze_resume may return: the dict of its except branch, or a parsed
\* answer with its defaults applied (the keys screen_candidates and
\* score_candidate read).
ResumeAnalyses ==
    { [candidate_name |-> s_Unknown,
       estimated_total_experience |-> Num(5),
       skill_strength |-> <<>>],
      [candidate_name |-> s_Jane_Roe,
       estimated_total_experience |-> Num(2),
       skill_strength |-> << <<s_A, strong>>, <<s_B, weak>> >>,
       estimated_relevant_experience |-> <<>>,
       engineering_depth_score |-> Num(12),
       formatting_score |-> Num(3)] }

\* what transcribe_file may return (the keys screen_candidates reads)
TranscriptResults ==
    { [success |-> TRUE, text |-> <<"h", "i">>],
      [success |-> TRUE, text |-> <<>>],
      [success |-> FALSE, text |-> <<>>] }

\* what analyze_audio may return
AudioAnalyses == { [technical_score |-> 75, communication_score |-> 80] }

\* A field that holds None or a number or a dict holds the number or the dict
\* as an object, to be told from None.
Obj(x) == <<"object", x>>

\* the truth value of a Python object: None, b"" and "" are false; the
\* numbers and dicts held as objects here are not 0 and not empty
Truthy(x) == x # None /\ x # <<>>

\* CandidateResult(name=..., resume_file=..., audio_file=...)
CandidateResult(name, resume_file, audio_file) ==
    [name |-> name, resume_file |-> resume_file, audio_file |-> audio_file,
     resume_score |-> None, resume_analysis |-> None, audio_analysis |-> None,
     score_breakdown |-> None, recommendation |-> None]

\* a call on a service for the candidate being processed, and what it returned
Event(fn, ret) == [fn |-> fn, at |-> Len(results) + 1, ret |-> ret]

\* a faulty variant: the analysis of the request's first resume scored again
LocalResumeAnalysis_First(tr) ==
    tr[Min({p \in 1..Len(tr) : tr[p].fn = "analyze_resume"})].ret

\* the local resume_analysis: what the analyze_resume call just made returned
LocalResumeAnalysis(tr) == tr[Len(tr)].ret

\* lines 235-236: the name of the result
ResultName(name, resume_analysis) ==
    IF /\ Truthy(Get(resume_analysis, "candidate_name", None))
       /\ Get(resume_analysis, "candidate_name", None) # s_Unknown
    THEN Get(resume_analysis, "candidate_name", None)
    ELSE name

\* lines 235-243: the result once the resume is scored
ScoredResult(res, resume_analysis, scoring_result) ==
    [res EXCEPT !.name = ResultName(res.name, resume_analysis),
                !.resume_score = Obj(scoring_result.final_score),
                !.resume_analysis = Obj(resume_analysis),
                !.score_breakdown = Obj(scoring_result.breakdown)]

\* a faulty variant: a recommendation only for a scored resume
NeedsRecommendation_ResumeOnly(res) == res.resume_score # None

\* the condition of line 256
NeedsRecommendation(res) == res.resume_score # None \/ res.audio_analysis # None

\* what generate_recommendation returns: a text made from its arguments
Recommendation(name, resume_score, audio_analysis, jd_analysis) ==
    [text |-> "recommendation", name |-> name, resume_score |-> resume_score,
     audio_analysis |-> audio_analysis]

\* x.resume_score or 0
ScoreOrZero(res) == IF res.resume_score = None THEN Num(0) ELSE res.resume_score[2]

\* sorted with r put behind the results that score as much or more
InsertByScore(sorted, r, k) ==
    SubSeq(sorted, 1, k) \o <<r>> \o SubSeq(sorted, k + 1, Len(sorted))

\* results.sort(key=..., reverse=True) of the first n results, none of which
\* has an audio analysis: by resume_score or 0, highest first, results of
\* equal score in their order
RECURSIVE SortedResults(_, _)
SortedResults(rs, n) ==
    IF n = 0 THEN <<>>
    ELSE InsertByScore(SortedResults(rs, n - 1), rs[n],
             Cardinality({i \in 1..(n - 1) : RatLe(ScoreOrZero(rs[n]), ScoreOrZero(rs[i]))}))

InitScreen ==
    /\ scoring = ScoringService
    /\ call = NoCall
    /\ prev = NoCall
    /\ resumes \in SeqsUpTo({f_john_doe_resume, f_john_cv}, MaxResumes)
    /\ audio_files \in SeqsUpTo({f_john_interview, f_jo_audio}, MaxAudio)
    /\ candidates = <<>>
    /\ pc = "grouping"
    /\ ri = 1
    /\ ai = 1
    /\ jd = ScreenJob
    /\ result = None
    /\ results = <<>>
    /\ trace = <<>>
    /\ frames = NoFrames

\* the grouping pass is over, or an iteration of the loop over the candidates is
AtLoopHead ==
    \/ pc = "grouping" /\ ri > Len(resumes) /\ ai > Len(audio_files)
    \/ pc = "candidate"

\* lines 220-232: the result is created; a resume with content is read as PDF
\* (extract_pdf_text may raise HTTPException, which ends the request) and
\* analysed
AnalyzeResume ==
    /\ AtLoopHead
    /\ Len(results) < Len(candidates)
    /\ result' = CandidateResult(candidates[Len(results) + 1].name,
                                 candidates[Len(results) + 1].resume_file,
                                 candidates[Len(results) + 1].audio_file)
    /\ IF Truthy(candidates[Len(results) + 1].resume_content)
       THEN \/ pc' = "error" /\ trace' = trace
            \/ \E resume_analysis \in ResumeAnalyses :
                  /\ pc' = "score"
                  /\ trace' = Append(trace, Event("analyze_resume", resume_analysis))
       ELSE pc' = "audio" /\ trace' = trace
    /\ UNCHANGED <<scoring, call, prev, resumes, audio_files, candidates, ri, ai,
                   jd, results, frames>>

\* lines 234-243: the resume analysis is scored.  The job has one requirement
\* in each category, so no category sum is a tie and fp is 0.
ScoreResume ==
    /\ pc = "score"
    /\ \E scoring_result \in {score_candidate(scoring, LocalResumeAnalysis(trace), jd, 0)} :
          /\ call' = [fn |-> "score_candidate",
                      args |-> <<LocalResumeAnalysis(trace), jd>>,
                      fp |-> 0,
                      ret |-> scoring_result]
          /\ result' = ScoredResult(result, LocalResumeAnalysis(trace), scoring_result)
          /\ trace' = Append(trace, Event("score_candidate", scoring_result))
    /\ pc' = "audio"
    /\ UNCHANGED <<scoring, prev, resumes, audio_files, candidates, ri, ai,
                   jd, results, frames>>

\* lines 245-253: an audio with content is transcribed and, when that gave a
\* text, analysed
AnalyzeAudio ==
    /\ pc = "audio"
    /\ IF Truthy(candidates[Len(results) + 1].audio_content)
       THEN \E transcript_result \in TranscriptResults :
               IF transcript_result.success /\ Truthy(transcript_result.text)
               THEN \E audio_analysis \in AudioAnalyses :
                       /\ result' = [result EXCEPT !.audio_analysis = Obj(audio_analysis)]
                       /\ trace' = trace \o <<Event("transcribe_file", transcript_result),
                                              Event("analyze_audio", audio_analysis)>>
               ELSE /\ result' = result
                    /\ trace' = Append(trace, Event("transcribe_file", transcript_result))
       ELSE UNCHANGED <<result, trace>>
    /\ pc' = "recommend"
    /\ UNCHANGED <<scoring, call, prev, resumes, audio_files, candidates, ri, ai,
                   jd, results, frames>>

\* lines 255-264: the recommendation, and the result appended
Recommend ==
    /\ pc = "recommend"
    /\ IF NeedsRecommendation(result)
       THEN \E text \in {Recommendation(result.name, result.resume_score,
                                        result.audio_analysis, jd)} :
               /\ result' = [result EXCEPT !.recommendation = Obj(text)]
               /\ trace' = Append(trace, Event("generate_recommendation", text))
       ELSE UNCHANGED <<result, trace>>
    /\ results' = Append(results, result')
    /\ pc' = "candidate"
    /\ UNCHANGED <<scoring, call, prev, resumes, audio_files, candidates, ri, ai,
                   jd, frames>>

\* lines 266-276: the results are sorted and returned.  audio_analysis is the
\* dict analyze_audio returned, and the sort key reads its attribute
\* technical_score: with an audio analysis among the results the sort raises
\* AttributeError and the request fails.
Respond ==
    /\ AtLoopHead
    /\ Len(results) = Len(candidates)
    /\ IF \E i \in 1..Len(results) : Truthy(results[i].audio_analysis)
       THEN pc' = "error" /\ results' = results
       ELSE pc' = "done" /\ results' = SortedResults(results, Len(results))
    /\ UNCHANGED <<scoring, call, prev, resumes, audio_files, candidates, ri, ai,
                   jd, result, trace, frames>>

NextScreen ==
    \/ ProcessResume
    \/ ProcessAudio
    \/ AnalyzeResume
    \/ ScoreResume
    \/ AnalyzeAudio
    \/ Recommend
    \/ Respond

SpecScreen == InitScreen /\ [][NextScreen]_vars

----------------------------------------------------------------------------
(* score_candidate calls in progress at once on one ScoringService: each     *)
(* thread runs the body of score_candidate statement by statement, its       *)
(* locals in its frame, self the one shared instance                         *)

\* <<resume_analysis, jd_analysis>> of the calls; each category has at most
\* one requirement, so no category sum is a tie and fp is 0
ThreadInputs ==
    ResumeAnalyses
    \X {ScreenJob,
        JobAnalysis([must |-> <<OrGroup(s_Db, <<s_B, s_A>>)>>, nice |-> <<>>],
                    Num(6), JobKeys \ {"nice_to_have_skills"})}

\* a faulty variant: the share of the must-have list kept on the instance
SkillsStep_OnSelf(self, fr) ==
    <<[self EXCEPT !.must_have_max = Len(Get(fr.args[2], "must_have_skills", <<>>))],
      SetField(SetField(fr, "skills",
                   score_skills(self,
                       Get(fr.args[2], "must_have_skills", <<>>),
                       Get(fr.args[2], "nice_to_have_skills", <<>>),
                       Get(fr.args[1], "skill_strength", <<>>), 0)),
               "pc", "suitability")>>

\* A statement gives <<self, frame>> as it leaves them.
\* lines 255-263: the skills are scored
SkillsStep(self, fr) ==
    <<self,
      SetField(SetField(fr, "skills",
                   score_skills(self,
                       Get(fr.args[2], "must_have_skills", <<>>),
                       Get(fr.args[2], "nice_to_have_skills", <<>>),
                       Get(fr.args[1], "skill_strength", <<>>), 0)),
               "pc", "suitability")>>

\* the statements of score_candidate, from the frame's position on
FrameStep(self, fr) ==
    CASE fr.pc = "skills" -> SkillsStep(self, fr)
      [] fr.pc = "suitability" ->
            <<self,
              SetField(SetField(fr, "suitability_score",
                           calculate_suitability_score(self,
                               Get(fr.args[1], "engineering_depth_score", Num(8)))),
                       "pc", "experience")>>
      [] fr.pc = "experience" ->
            <<self,
              SetField(SetField(SetField(fr, "formatting_score",
                                    Get(fr.args[1], "formatting_score", Num(2))),
                           "exp",
                           check_experience(self,
                               Get(fr.args[1], "estimated_total_experience", Num(0)),
                               Get(fr.args[2], "total_experience_required", Num(0)),
                               Get(fr.args[2], "relevant_experience_required", <<>>),
                               Get(fr.args[1], "estimated_relevant_experience", <<>>))),
                       "pc", "final")>>
      [] fr.pc = "final" ->
            <<self,
              [pc |-> "done",
               args |-> fr.args,
               ret |-> CandidateFinal(self, fr.skills, fr.suitability_score,
                                      fr.formatting_score, fr.exp)]>>

\* a thread calls score_candidate
EnterScoreCandidate ==
    /\ \E t \in Threads, args \in ThreadInputs :
          /\ frames[t].pc \in {"idle", "done"}
          /\ frames' = [frames EXCEPT ![t] = [pc |-> "skills", args |-> args]]
    /\ UNCHANGED <<scoring, call, prev, resumes, audio_files, candidates, pc, ri, ai,
                   jd, result, results, trace>>

\* a thread executes its next statement
StepScoreCandidate ==
    /\ \E t \in Threads :
          /\ frames[t].pc \notin {"idle", "done"}
          /\ \E after \in {FrameStep(scoring, frames[t])} :
                /\ scoring' = after[1]
                /\ frames' = [frames EXCEPT ![t] = after[2]]
    /\ UNCHANGED <<call, prev, resumes, audio_files, candidates, pc, ri, ai,
                   jd, result, results, trace>>

NextThreads ==
    \/ EnterScoreCandidate
    \/ StepScoreCandidate

SpecThreads == Init /\ [][NextThreads]_vars

----------------------------------------------------------------------------
(* normalize_name on the file names of uploads *)

MaxParts == 2           \* most parts (words and tokens) of a file name's stem

\* the parts of a stem: words of a person's name, and the tokens appended to
\* file names, in several spellings
NameParts ==
    { <<"j", "o", "h", "n">>, <<"D", "o", "e">>, <<"M", "c", "V", "e", "y">>,
      <<"r", "e", "s", "u", "m", "e">>, <<"C", "V">>,
      <<"I", "n", "t", "e", "r", "v", "i", "e", "w">>,
      <<"a", "u", "d", "i", "o">>,
      <<"r", "e", "c", "o", "r", "d", "i", "n", "g">> }

\* what stands between two parts: a separator, or nothing
PartSeparators == { <<"_">>, <<"-">>, <<" ">>, <<>> }

\* the stems of exactly n parts
RECURSIVE StemsOf(_)
StemsOf(n) ==
    IF n = 1 THEN NameParts
    ELSE {s \o sep \o part :
             s \in StemsOf(n - 1), sep \in PartSeparators, part \in NameParts}

\* <<directory, stem, extension>> of the file names
FilePaths ==
    { <<>>, <<"u", "p", "l", "o", "a", "d", "s", "/">> }
    \X (UNION {StemsOf(n) : n \in 1..MaxParts})
    \X { <<".", "p", "d", "f">>, <<".", "m", "p", "3">> }

CallNormalizeName ==
    /\ call = NoCall
    /\ \E path \in FilePaths :
          call' = [fn |-> "normalize_name",
                   args |-> <<path[1] \o path[2] \o path[3]>>,
                   path |-> path,
                   ret |-> normalize_name(path[1] \o path[2] \o path[3])]
    /\ Rest

\* normalize_name
NextNames ==
    \/ CallNormalizeName

SpecNames == Init /\ [][NextNames]_vars

----------------------------------------------------------------------------
(* The experience assessor: round_experience and check_experience *)

MaxYears == 5           \* most years of experience given

\* years of experience in steps of 1/per from lo years on, and the double
\* next below 0.5
YearsFrom(lo, per) == {Rat(k, per) : k \in (lo * per)..(MaxYears * per)} \cup {BelowHalf}

CallRoundExperience ==
    /\ call = NoCall
    /\ \E years \in YearsFrom(0 - MaxYears, 100) :
          call' = [fn |-> "round_experience",
                   args |-> <<years>>,
                   ret |-> round_experience(scoring, years)]
    /\ Rest

CallCheckExperience ==
    /\ call = NoCall
    /\ \E candidate_total \in YearsFrom(0, 4), required_total \in YearsFrom(0, 4) :
          call' = [fn |-> "check_experience",
                   args |-> <<candidate_total, required_total, <<>>, <<>>>>,
                   ret |-> check_experience(scoring, candidate_total, required_total,
                                            <<>>, <<>>)]
    /\ Rest

\* ScoringService: the experience assessor
NextExperience ==
    \/ CallRoundExperience
    \/ CallCheckExperience

SpecExperience == Init /\ [][NextExperience]_vars

----------------------------------------------------------------------------
(* score_candidate on analyses with fields absent and on long requirement     *)
(* lists                                                                      *)

\* the skill inputs of the calls with absent fields
AbsentParts ==
    { [must |-> <<StrItem(s_A)>>, nice |-> <<StrItem(s_B)>>,
       strength |-> << <<s_A, moderate>>, <<s_B, weak>> >>],
      [must |-> <<OrGroup(s_Db, <<s_A, s_B>>), StrItem(s_B)>>, nice |-> <<>>,
       strength |-> << <<s_B, strong>> >>] }

\* analyses of which any of the fields score_candidate reads may be absent;
\* the fields present hold values other than the defaults
CallScoreCandidateAbsent ==
    /\ call = NoCall
    /\ \E part \in AbsentParts, present \in SUBSET (ResumeKeys \cup JobKeys), fp \in FloatErr :
          LET resume_analysis == ResumeAnalysis(part, Num(6), Num(3), Num(3), present)
              jd_analysis == JobAnalysis(part, Num(6), present)
          IN  call' = [fn |-> "score_candidate",
                       args |-> <<resume_analysis, jd_analysis>>,
                       fp |-> fp,
                       ret |-> score_candidate(scoring, resume_analysis, jd_analysis, fp)]
    /\ Rest

MaxMustHave == 10       \* longest must-have list of a score_candidate call

\* score_candidate on short and on long requirement lists: a must-have list of
\* one to three or of MaxMustHave requirements, a nice-to-have list of none or
\* two, a tier for each skill, an engineering depth below or above its range
CallScoreCandidateLong ==
    /\ call = NoCall
    /\ \E p \in {0, 1, 2, MaxMustHave - 1},
          nice \in {<<>>, <<StrItem(s_A), OrGroup(s_Db, <<s_B>>)>>},
          skill_strength \in TierMaps,
          depth \in {Num(0 - MaxDepthExcess), Num(15 + MaxDepthExcess)},
          fp \in FloatErr :
          \E resume_analysis \in
                {ResumeAnalysis([strength |-> skill_strength], depth, Num(2), Num(3),
                                ResumeKeys)},
             jd_analysis \in
                {JobAnalysis([must |-> Repeat(StrItem(s_A), p)
                                           \o <<OrGroup(s_Db, <<s_B, s_a>>)>>,
                              nice |-> nice],
                             Num(3), JobKeys)} :
             call' = [fn |-> "score_candidate",
                      args |-> <<resume_analysis, jd_analysis>>,
                      fp |-> fp,
                      ret |-> score_candidate(scoring, resume_analysis, jd_analysis, fp)]
    /\ Rest

\* the strength maps with the keys of s1, in their order, that give every key
\* a tier at least as high as its tier in s1, the tiers in the order missing,
\* weak, moderate, strong
RaisedMaps(s1) ==
    LET order == <<missing, weak, moderate, strong>>
    IN  {[i \in 1..Len(s1) |-> <<s1[i][1], order[v[i]]>>] :
            v \in {w \in [1..Len(s1) -> 1..4] :
                      \A i \in 1..Len(s1) : \A r \in 1..4 :
                          order[r] = s1[i][2] => r <= w[i]}}

\* A category whose records are those of the last call had the float
\* additions of the last call: its totals are those of the last call.
SameAdditions(last, next) ==
    \A k \in 1..Len(last.skills_breakdown) :
        next.skills_breakdown[k].skills = last.skills_breakdown[k].skills =>
            /\ next.skills_breakdown[k] = last.skills_breakdown[k]
            /\ IF last.skills_breakdown[k].category = "Must-Have Skills (Technical)"
               THEN next.must_have_score = last.must_have_score
               ELSE next.nice_to_have_score = last.nice_to_have_score

\* the next candidate of the request: the same job analysis, a resume analysis
\* with every field that differs from the last one in that some skills have a
\* higher tier; fp is any that SameAdditions allows
ScoreNextStrength ==
    /\ call.fn = "score_candidate"
    /\ prev = NoCall
    /\ DOMAIN call.args[1] = ResumeKeys
    /\ \E s2 \in RaisedMaps(call.args[1].skill_strength) \ {call.args[1].skill_strength},
          fp \in FloatErr :
          \E resume_analysis \in {SetField(call.args[1], "skill_strength", s2)} :
             \E next \in {score_candidate(scoring, resume_analysis, call.args[2], fp)} :
                /\ SameAdditions(call.ret.breakdown, next.breakdown)
                /\ call' = [fn |-> "score_candidate",
                            args |-> <<resume_analysis, call.args[2]>>,
                            fp |-> fp,
                            ret |-> next]
    /\ prev' = call
    /\ UNCHANGED <<scoring, resumes, audio_files, candidates, pc, ri, ai,
                   jd, result, results, trace, frames>>

\* ScoringService: score_candidate on further inputs
NextCandidate ==
    \/ CallScoreCandidateAbsent
    \/ CallScoreCandidateLong
    \/ ScoreNextStrength

SpecCandidate == Init /\ [][NextCandidate]_vars

----------------------------------------------------------------------------
(* Properties of the score composer and of score_candidate (Spec) *)

InRange(r, lo, hi) == RatLe(Num(lo), r) /\ RatLe(r, Num(hi))

\* C1: calculate_final_score returns a value in [0,100] for scores of any
\* magnitude, negative ones and ones far above their maxima included, and so
\* the final_score score_candidate returns is in [0,100].
C1_FinalScoreInRange ==
    /\ call.fn = "calculate_final_score" => InRange(call.ret, 0, 100)
    /\ call.fn = "score_candidate" => InRange(call.ret.final_score, 0, 100)

\* scores far above their maxima, clamped to 100
C1_Witness ==
    /\ call.fn = "calculate_final_score"
    /\ call.args[1] = Num(1000)
    /\ call.args[2] = Num(30)
    /\ call.args[3] = Num(1000)
    /\ call.ret = Num(100)

\* the end-to-end example: must_have_skills [{skill: "Python"}], no
\* nice-to-have skills, skill_strength {"python": "weak"}, depth 6, formatting 2
C2_Input ==
    /\ call.fn = "score_candidate"
    /\ Get(call.args[2], "must_have_skills", <<>>) = << DictItem([skill |-> s_Python]) >>
    /\ Get(call.args[2], "nice_to_have_skills", <<>>) = <<>>
    /\ Get(call.args[1], "skill_strength", <<>>) = << <<s_python, weak>> >>
    /\ Get(call.args[1], "engineering_depth_score", None) = Num(6)
    /\ Get(call.args[1], "formatting_score", None) = Num(2)

\* C2: on the end-to-end example score_candidate returns must_have_score 9,
\* suitability_score 10, nice_to_have_score 0 and final_score 59.0.
C2_EndToEnd ==
    C2_Input =>
        /\ call.ret.breakdown.must_have_score = Num(9)
        /\ call.ret.breakdown.suitability_score = Num(10)
        /\ call.ret.breakdown.nice_to_have_score = Num(0)
        /\ call.ret.final_score = Num(59)

\* C7: two score_candidate calls whose inputs differ only in formatting_score
\* return the same final_score and the same must-have, nice-to-have and
\* suitability values, and the breakdown reports the formatting_score supplied.
C7_FormattingIgnored ==
    /\ (call.fn = "score_candidate" /\ "formatting_score" \in DOMAIN call.args[1]) =>
           call.ret.breakdown.formatting_score = call.args[1]["formatting_score"]
    /\ prev # NoCall =>
           /\ call.ret.final_score = prev.ret.final_score
           /\ call.ret.breakdown.total = prev.ret.breakdown.total
           /\ call.ret.breakdown.must_have_score = prev.ret.breakdown.must_have_score
           /\ call.ret.breakdown.nice_to_have_score = prev.ret.breakdown.nice_to_have_score
           /\ call.ret.breakdown.suitability_score = prev.ret.breakdown.suitability_score

\* the same analyses scored with formatting 2 and then with formatting 3,
\* below the cap so that an added formatting score would show
C7_Witness ==
    /\ prev # NoCall
    /\ "formatting_score" \in DOMAIN prev.args[1]
    /\ prev.args[1]["formatting_score"] = Num(2)
    /\ call.args[1]["formatting_score"] = Num(3)
    /\ call.ret.breakdown.formatting_score = Num(3)
    /\ RatLt(call.ret.final_score, Num(90))

\* the integer nearest to n/d (d > 0), clamped to lo..hi
NearestClamped(n, d, lo, hi) ==
    {IF z < lo THEN lo ELSE IF z > hi THEN hi ELSE z :
        z \in {y \in ((n \div d) - 1)..((n \div d) + 1) : 2 * Abs(d * y - n) <= d}}

\* C8: for every integer d, calculate_suitability_score(d) is d * 25 / 15
\* rounded to the nearest integer and clamped to [0,25]: 0 for d <= 0, 25 for
\* d >= 15, 10 for d = 6, 13 for d = 8, and non-decreasing in d.
C8_Suitability ==
    call.fn = "calculate_suitability_score" =>
        LET d == call.args[1].n
        IN  /\ call.ret.d = 1
            /\ call.ret.n \in NearestClamped(d * 25, 15, 0, 25)
            /\ d <= 0 => call.ret = Num(0)
            /\ d >= 15 => call.ret = Num(25)
            /\ d = 6 => call.ret = Num(10)
            /\ d = 8 => call.ret = Num(13)
            /\ \A e \in Depths :
                  e >= d => RatLe(call.ret, calculate_suitability_score(scoring, Num(e)))

\* a depth below the range, scored 0
C8_Witness ==
    /\ call.fn = "calculate_suitability_score"
    /\ call.args[1] = Num(0 - MaxDepthExcess)
    /\ call.ret = Num(0)

\* dict d without the keys in keys
Without(d, keys) == [k \in DOMAIN d \ keys |-> d[k]]

\* the last two calls differ in nothing but the values of these keys
DifferOnlyIn(keys) ==
    /\ prev # NoCall
    /\ Without(call.args[1], keys) = Without(prev.args[1], keys)
    /\ Without(call.args[2], keys) = Without(prev.args[2], keys)

\* C17: two score_candidate calls whose inputs differ only in
\* estimated_total_experience, total_experience_required,
\* relevant_experience_required or estimated_relevant_experience return the
\* same final_score and the same must-have, nice-to-have and suitability
\* values; only experience_notes and notes may differ, and the
\* relevant-experience maps affect nothing at all.
C17_ExperienceIgnored ==
    /\ DifferOnlyIn({"estimated_total_experience", "total_experience_required",
                     "relevant_experience_required", "estimated_relevant_experience"}) =>
           /\ call.ret.final_score = prev.ret.final_score
           /\ Without(call.ret.breakdown, {"experience_notes", "notes"}) =
                  Without(prev.ret.breakdown, {"experience_notes", "notes"})
    /\ DifferOnlyIn({"relevant_experience_required", "estimated_relevant_experience"}) =>
           call.ret = prev.ret

\* 3 years against 6 required and then against none: the gap note goes, the
\* score stays
C17_Witness ==
    /\ prev # NoCall
    /\ prev.args[2]["total_experience_required"] = Num(6)
    /\ call.args[2]["total_experience_required"] = Num(0)
    /\ Len(prev.ret.breakdown.notes) = 1
    /\ call.ret.breakdown.notes = <<>>
    /\ call.ret.final_score = prev.ret.final_score
    /\ RatLt(call.ret.final_score, Num(100))

----------------------------------------------------------------------------
(* Properties of the skill evaluator (SpecSkills) *)

\* The tier the specification gives a name in a strength map: that of the key
\* equal to the name, else that of the first key equal to it up to letter
\* case, else missing.
CaseInsensitiveTier(skill_strength, name) ==
    LET exact == {i \in 1..Len(skill_strength) : skill_strength[i][1] = name}
        hits == {i \in 1..Len(skill_strength) :
                    lower(skill_strength[i][1]) = lower(name)}
        from == IF exact # {} THEN exact ELSE hits
    IN  IF from = {} THEN missing
        ELSE lower(skill_strength[CHOOSE i \in from : \A j \in from : i <= j][2])

\* the multiplier of a tier, in tenths
TierTenths(tier) ==
    IF tier = strong THEN 10
    ELSE IF tier = moderate THEN 7
    ELSE IF tier = weak THEN 3
    ELSE 0

IsOrGroup(skill_item) ==
    skill_item.py = "dict" /\ Get(skill_item.d, "type", "single") = "or_group"

IsSingle(skill_item) ==
    skill_item.py = "str" \/ (skill_item.py = "dict" /\ ~IsOrGroup(skill_item))

RequirementName(skill_item) ==
    IF skill_item.py = "str" THEN skill_item.s
    ELSE Get(skill_item.d, "skill", <<"S", "k", "i", "l", "l">>)

\* the best tier among the options of an OR group
GroupTier(options, skill_strength) ==
    LET tenths == {TierTenths(CaseInsensitiveTier(skill_strength, options[i])) :
                      i \in 1..Len(options)}
    IN  IF 10 \in tenths THEN strong
        ELSE IF 7 \in tenths THEN moderate
        ELSE IF 3 \in tenths THEN weak
        ELSE missing

\* the tier a requirement resolves to
ResolvedTier(skill_item, skill_strength) ==
    IF IsSingle(skill_item)
    THEN CaseInsensitiveTier(skill_strength, RequirementName(skill_item))
    ELSE IF IsOrGroup(skill_item)
    THEN GroupTier(Get(skill_item.d, "options", <<>>), skill_strength)
    ELSE missing

\* every item is a requirement the loops record
WellFormed(skills) == \A i \in 1..Len(skills) : skills[i].py \in {"str", "dict"}

\* the records of the must-have and of the nice-to-have breakdown
MustHaveRecords(ret) == ret[3][1].skills

NiceToHaveRecords(ret) == ret[3][Len(ret[3])].skills

\* C3: a single-skill requirement, must-have or nice-to-have, is resolved by
\* case-insensitive lookup in the strength map: a name and a key that differ
\* only in letter case give the key's tier, a name with no such key is missing.
C3_SingleCaseInsensitive ==
    call.fn = "score_skills" =>
        /\ (Len(call.args[1]) > 0 /\ WellFormed(call.args[1])) =>
              \A i \in 1..Len(call.args[1]) :
                  IsSingle(call.args[1][i]) =>
                      MustHaveRecords(call.ret)[i].strength =
                          CaseInsensitiveTier(call.args[3], RequirementName(call.args[1][i]))
        /\ (Len(call.args[2]) > 0 /\ WellFormed(call.args[2])) =>
              \A i \in 1..Len(call.args[2]) :
                  IsSingle(call.args[2][i]) =>
                      NiceToHaveRecords(call.ret)[i].has_skill =
                          (CaseInsensitiveTier(call.args[3], RequirementName(call.args[2][i]))
                              # missing)

\* C4: for a non-empty must-have list the must-have total is at most 30, and
\* it is 30 if and only if every requirement resolves to strong.
C4_MustHaveTotal ==
    (call.fn = "score_skills" /\ Len(call.args[1]) > 0) =>
        /\ RatLe(call.ret[1], Num(30))
        /\ call.ret[1] = Num(30) <=>
              \A i \in 1..Len(call.args[1]) :
                  ResolvedTier(call.args[1][i], call.args[3]) = strong

\* the claim of C5 for the option at index i
IsBestOption(options, skill_strength, i, ret) ==
    /\ ret[1] = options[i]
    /\ ret[2] = CaseInsensitiveTier(skill_strength, options[i])
    /\ \A j \in 1..Len(options) :
          /\ TierTenths(CaseInsensitiveTier(skill_strength, options[j])) <=
                 TierTenths(CaseInsensitiveTier(skill_strength, options[i]))
          /\ j < i => TierTenths(CaseInsensitiveTier(skill_strength, options[j])) <
                          TierTenths(CaseInsensitiveTier(skill_strength, options[i]))

\* the two examples: [MySQL, MongoDB] resolves to MySQL/strong, [A, B] to A
C5_Examples ==
    /\ call.args = << <<s_MySQL, s_MongoDB>>,
                      << <<s_mongodb, moderate>>, <<s_mysql, strong>> >> >> =>
           (call.ret[1] = s_MySQL /\ call.ret[2] = strong)
    /\ call.args = << <<s_A, s_B>>, << <<s_a, strong>>, << <<"b">>, strong>> >> >> =>
           call.ret[1] = s_A

\* C5: get_best_skill_from_group resolves an OR group to exactly one of its
\* options: the one whose tier has the highest multiplier, the earliest of
\* them when several have it.
C5_OneOfTheOptions ==
    call.fn = "get_best_skill_from_group" =>
        /\ \E i \in 1..Len(call.args[1]) :
              IsBestOption(call.args[1], call.args[2], i, call.ret)
        /\ C5_Examples

\* C5 as the code has it: when an option's tier has a multiplier above 0, the
\* group resolves to the earliest option of the highest multiplier; when none
\* has (every option missing or of no known tier, or no option at all), it
\* resolves to no option: None, missing and multiplier 0.
C5_BestOptionOrNone ==
    call.fn = "get_best_skill_from_group" =>
        /\ IF \E i \in 1..Len(call.args[1]) :
                 TierTenths(CaseInsensitiveTier(call.args[2], call.args[1][i])) > 0
           THEN /\ \E i \in 1..Len(call.args[1]) :
                      IsBestOption(call.args[1], call.args[2], i, call.ret)
                /\ call.ret[3] = Rat(TierTenths(call.ret[2]), 10)
           ELSE call.ret = <<None, missing, Num(0)>>
        /\ C5_Examples

\* the later option wins by its multiplier
C5_Witness ==
    /\ call.fn = "get_best_skill_from_group"
    /\ call.args[1] = <<s_a, s_B>>
    /\ call.args[2] = << <<s_B, strong>>, <<s_A, weak>> >>
    /\ call.ret = <<s_B, strong, Num(1)>>

\* the requirements of a list that resolve to a tier other than missing
ResolvedCount(skills, skill_strength) ==
    Cardinality({i \in 1..Len(skills) : ResolvedTier(skills[i], skill_strength) # missing})

\* C6: of M nice-to-have requirements, the k that resolve to a tier other than
\* missing are each awarded the share 5/M and the others 0, and the
\* nice-to-have total is 5k/M rounded to the nearest integer.
C6_NiceToHaveTotal ==
    (call.fn = "score_skills" /\ Len(call.args[2]) > 0) =>
        /\ call.ret[2].d = 1
        /\ 2 * Abs(Len(call.args[2]) * call.ret[2].n
                   - 5 * ResolvedCount(call.args[2], call.args[3])) <= Len(call.args[2])
        /\ WellFormed(call.args[2]) =>
              \A i \in 1..Len(call.args[2]) :
                  NiceToHaveRecords(call.ret)[i].points =
                      IF ResolvedTier(call.args[2][i], call.args[3]) # missing
                      THEN PyRound1(Rat(5, Len(call.args[2])))
                      ELSE Num(0)

\* the entries of a breakdown for a category
CategoryEntries(breakdown, category) ==
    {breakdown[i] : i \in {j \in 1..Len(breakdown) : breakdown[j].category = category}}

\* the total at index which and the entries of category are those of other
ScoredAs(ret, other, which, category) ==
    /\ ret[which] = other[which]
    /\ CategoryEntries(ret[3], category) = CategoryEntries(other[3], category)

\* C19: when the must-have list (the nice-to-have list) is empty, score_skills
\* returns 0 for that category's total and the breakdown has no entry for the
\* category; the other category is scored as usual: a call with both lists
\* scores each category as the call with the other list empty does.
C19_EmptyCategory ==
    call.fn = "score_skills" =>
        /\ Len(call.args[1]) = 0 =>
              /\ call.ret[1] = Num(0)
              /\ CategoryEntries(call.ret[3], "Must-Have Skills (Technical)") = {}
        /\ Len(call.args[2]) = 0 =>
              /\ call.ret[2] = Num(0)
              /\ CategoryEntries(call.ret[3], "Nice-to-Have Skills (Bonus)") = {}
        /\ (Len(call.args[1]) > 0 /\ Len(call.args[2]) > 0) =>
              /\ \A other \in {score_skills(scoring, <<>>, call.args[2],
                                            call.args[3], call.fp)} :
                    ScoredAs(other, call.ret, 2, "Nice-to-Have Skills (Bonus)")
              /\ \A other \in {score_skills(scoring, call.args[1], <<>>,
                                            call.args[3], call.fp)} :
                    ScoredAs(other, call.ret, 1, "Must-Have Skills (Technical)")

\* no must-have requirement, one nice-to-have requirement that scores 5
C19_Witness ==
    /\ call.fn = "score_skills"
    /\ call.args[1] = <<>>
    /\ call.args[2] = <<StrItem(s_A)>>
    /\ call.ret[1] = Num(0)
    /\ call.ret[2] = Num(5)
    /\ Len(call.ret[3]) = 1
    /\ call.ret[3][1].category = "Nice-to-Have Skills (Bonus)"

IsWellFormed(skill_item) == skill_item.py \in {"str", "dict"}

\* the records of a category, none when the breakdown has no entry for it
RecordsOf(breakdown, category) ==
    IF CategoryEntries(breakdown, category) = {} THEN <<>>
    ELSE (CHOOSE e \in CategoryEntries(breakdown, category) : TRUE).skills

\* the totals and the records are those of other
SameScores(ret, other) ==
    /\ ret[1] = other[1]
    /\ ret[2] = other[2]
    /\ RecordsOf(ret[3], "Must-Have Skills (Technical)") =
           RecordsOf(other[3], "Must-Have Skills (Technical)")
    /\ RecordsOf(ret[3], "Nice-to-Have Skills (Bonus)") =
           RecordsOf(other[3], "Nice-to-Have Skills (Bonus)")

\* C20: a requirement item that is neither a single skill nor an OR group is
\* skipped: score_skills produces no record for it and scores every other
\* item as it would be scored if the malformed item were not in the list.
C20_MalformedSkipped ==
    call.fn = "score_skills" =>
        \A other \in {score_skills(scoring, SelectSeq(call.args[1], IsWellFormed),
                                   SelectSeq(call.args[2], IsWellFormed),
                                   call.args[3], call.fp)} :
            SameScores(call.ret, other)

\* x is a multiple of 1/per and no multiple of 1/per is nearer to r
IsNearest(x, r, per) ==
    /\ (x.n * per) % x.d = 0
    /\ 2 * per * Abs(x.n * r.d - r.n * x.d) <= x.d * r.d

\* the multipliers of the first i tiers, added up, in tenths
RECURSIVE TenthsSum(_, _)
TenthsSum(tiers, i) ==
    IF i = 0 THEN 0 ELSE TierTenths(tiers[i]) + TenthsSum(tiers, i - 1)

\* N requirements with the given tiers are each awarded the share 30/N times
\* the multiplier of their tier; the records and the total are roundings of
\* the shares, the awards and their sum
SharesAwarded(N, tiers, records, total) ==
    /\ Len(records) = N
    /\ \A i \in 1..N :
          /\ IsNearest(records[i].max_points, Rat(30, N), 10)
          /\ IsNearest(records[i].points, Rat(3 * TierTenths(tiers[i]), N), 10)
          /\ RatLe(Num(0), records[i].points)
          /\ RatLe(records[i].points, records[i].max_points)
    /\ IsNearest(total, Rat(3 * TenthsSum(tiers, N), N), 1)

\* C25: of a must-have list of N >= 1 requirements every requirement gets the
\* share 30/N and is awarded the share times the multiplier of the tier it
\* resolves to (an OR group: of its best option); the must-have total is the
\* sum of the awards rounded to the nearest integer, each record has points =
\* the award and max_points = the share, rounded to one decimal, and
\* 0 <= points <= max_points.
C25_MustHaveShares ==
    (call.fn = "score_skills" /\ Len(call.args[1]) > 0 /\ WellFormed(call.args[1])) =>
        SharesAwarded(Len(call.args[1]),
                      [i \in 1..Len(call.args[1]) |->
                          ResolvedTier(call.args[1][i], call.args[3])],
                      MustHaveRecords(call.ret), call.ret[1])

\* a single requirement X written as the OR group whose only option is X
AsGroup(skill_item) ==
    IF IsSingle(skill_item)
    THEN OrGroup(RequirementName(skill_item), <<RequirementName(skill_item)>>)
    ELSE skill_item

GroupForm(skills) == [i \in 1..Len(skills) |-> AsGroup(skills[i])]

\* the records of a category give every requirement the strength and the
\* points that other's records give it
SameStrengthAndPoints(records, other) ==
    /\ Len(records) = Len(other)
    /\ \A i \in 1..Len(records) :
          /\ records[i].points = other[i].points
          /\ "strength" \in DOMAIN records[i] => records[i].strength = other[i].strength
          /\ "has_skill" \in DOMAIN records[i] => records[i].has_skill = other[i].has_skill

\* C27: an OR group whose only option is X is scored as the single
\* requirement X is: for every strength map (keys that differ from X in
\* letter case only and values outside the four tiers included), in the
\* must-have and in the nice-to-have list, both forms get the same resolved
\* strength and the same points.
C27_SingleOptionGroup ==
    (/\ call.fn = "score_skills"
     /\ Len(call.args[1]) <= MaxItems /\ WellFormed(call.args[1])
     /\ Len(call.args[2]) <= MaxItems /\ WellFormed(call.args[2])) =>
        \A other \in {score_skills(scoring, GroupForm(call.args[1]),
                                   GroupForm(call.args[2]), call.args[3], call.fp)} :
            /\ call.ret[1] = other[1]
            /\ call.ret[2] = other[2]
            /\ SameStrengthAndPoints(
                   RecordsOf(call.ret[3], "Must-Have Skills (Technical)"),
                   RecordsOf(other[3], "Must-Have Skills (Technical)"))
            /\ SameStrengthAndPoints(
                   RecordsOf(call.ret[3], "Nice-to-Have Skills (Bonus)"),
                   RecordsOf(other[3], "Nice-to-Have Skills (Bonus)"))

----------------------------------------------------------------------------
(* Properties of the grouping pass (SpecGroup) *)

\* the step that processes audio upload ai
AudioStep == ai' = ai + 1

\* the buckets that share a whole word with the audio key of these words
SharesWord(audio_words) ==
    {b \in 1..Len(candidates) : audio_words \cap WordSet(candidates[b].name) # {}}

\* the buckets with a word of which and a word of the audio key, both of
\* length 3 or more, one is a substring of the other
SharesSubstring(audio_words) ==
    {b \in 1..Len(candidates) :
        \E aw \in audio_words, cw \in WordSet(candidates[b].name) :
            /\ Len(aw) >= 3
            /\ Len(cw) >= 3
            /\ IsSubstring(aw, cw) \/ IsSubstring(cw, aw)}

\* the buckets that hold audio upload ai after the step
HoldsAudio ==
    {b \in 1..Len(candidates') :
        /\ candidates'[b].audio_file = audio_files[ai]
        /\ candidates'[b].audio_content = Content("audio_files", ai)}

\* the existing buckets the step changes
ChangedBuckets == {b \in 1..Len(candidates) : candidates'[b] # candidates[b]}

\* the audio of key audio_name, equal to no bucket key, goes to the first of
\* the buckets in matching, if there is any
GoesToFirstOf(audio_name, matching) ==
    (~HasKey(candidates, audio_name) /\ matching # {}) =>
        /\ HoldsAudio = {Min(matching)}
        /\ Len(candidates') = Len(candidates)

\* the claim of C9 for an audio key and its words
StagesInOrderFor(audio_name, audio_words) ==
    GoesToFirstOf(audio_name, SharesWord(audio_words))

\* what the code does for an audio key and its words
FirstMatchingBucketFor(audio_name, audio_words) ==
    GoesToFirstOf(audio_name, SharesWord(audio_words) \cup SharesSubstring(audio_words))

\* C9: the stages are tried in strict order over all buckets: an audio key
\* equal to no bucket key is attached to the first bucket in insertion order
\* that shares a whole word with it whenever there is one, and a substring
\* match is taken only when no bucket shares a whole word.
C9_StagesInOrder ==
    [][AudioStep =>
           StagesInOrderFor(normalize_name(audio_files[ai]),
                            WordSet(normalize_name(audio_files[ai])))]_vars

\* C9 as the code has it: the two stages are tried bucket by bucket, so an
\* audio key equal to no bucket key is attached to the first bucket in
\* insertion order that shares a whole word or a substring pair with it; a
\* bucket sharing a whole word gets it only when no earlier bucket matches by
\* substring.
C9_FirstMatchingBucket ==
    [][AudioStep =>
           FirstMatchingBucketFor(normalize_name(audio_files[ai]),
                                  WordSet(normalize_name(audio_files[ai])))]_vars

\* john_interview.mp3 goes to "johnathan smith", inserted before "john doe"
C9_Witness ==
    /\ resumes = <<f_johnathan_smith_cv, f_john_doe_resume>>
    /\ ai = 2
    /\ audio_files[1] = f_john_interview
    /\ candidates[1].audio_file = f_john_interview
    /\ candidates[2].audio_file = None

\* the audio of key audio_name, the key of a bucket, goes to that bucket
\* and changes no other
GoesToItsKey(audio_name) ==
    HasKey(candidates, audio_name) =>
        /\ Len(candidates') = Len(candidates)
        /\ HoldsAudio = {b \in 1..Len(candidates) : candidates[b].name = audio_name}
        /\ ChangedBuckets \subseteq HoldsAudio
        /\ \A b \in HoldsAudio :
              /\ candidates'[b].name = candidates[b].name
              /\ candidates'[b].resume_file = candidates[b].resume_file
              /\ candidates'[b].resume_content = candidates[b].resume_content

\* C10: an audio upload whose key equals the key of a bucket is attached to
\* exactly that bucket, whatever earlier buckets share a word or a substring
\* with the key, and no other bucket is changed.
C10_ExactKeyFirst ==
    [][AudioStep => GoesToItsKey(normalize_name(audio_files[ai]))]_vars

\* john_interview.mp3 goes to "john", inserted after "john doe"
C10_Witness ==
    /\ resumes = <<f_john_doe_resume, f_john_cv>>
    /\ ai = 2
    /\ audio_files[1] = f_john_interview
    /\ candidates[1].audio_file = None
    /\ candidates[2].name = <<"j", "o", "h", "n">>
    /\ candidates[2].audio_file = f_john_interview

\* the claim of C11 for the resumes processed, keys[i] the key of resume i
OneBucketPerKey(keys) ==
    /\ {candidates[b].name : b \in 1..Len(candidates)} = {keys[i] : i \in 1..Len(keys)}
    /\ \A b, c \in 1..Len(candidates) :
          b < c => Min({i \in 1..Len(keys) : keys[i] = candidates[b].name})
                       < Min({i \in 1..Len(keys) : keys[i] = candidates[c].name})
    /\ \A b \in 1..Len(candidates) :
          /\ candidates[b].resume_file =
                 resumes[Max({i \in 1..Len(keys) : keys[i] = candidates[b].name})]
          /\ candidates[b].resume_content =
                 Content("resumes", Max({i \in 1..Len(keys) : keys[i] = candidates[b].name}))

\* C11: after all resumes are processed there is exactly one bucket per
\* distinct normalized resume key, each bucket holds the last-uploaded resume
\* of its key, and the buckets are ordered by the first occurrence of their key.
C11_OneBucketPerKey ==
    (pc = "grouping" /\ ri > Len(resumes) /\ ai = 1) =>
        OneBucketPerKey([i \in 1..Len(resumes) |-> normalize_name(resumes[i])])

\* uploads/John-Doe.pdf replaces john_doe_resume.pdf in the bucket "john doe"
C11_Witness ==
    /\ resumes = <<f_john_doe_resume, f_John_Doe>>
    /\ ri = 3
    /\ ai = 1
    /\ Len(candidates) = 1
    /\ candidates[1].resume_file = f_John_Doe
    /\ candidates[1].resume_content = Content("resumes", 2)

\* the buckets whose key is the audio key
SharesKey(audio_name) == {b \in 1..Len(candidates) : candidates[b].name = audio_name}

\* the claim of C12 for an audio key and the buckets that match it
NewBucketIffNoMatch(audio_name, matching) ==
    IF matching = {}
    THEN candidates' = Append(candidates,
                           [name |-> audio_name,
                            resume_file |-> None,
                            resume_content |-> None,
                            audio_file |-> audio_files[ai],
                            audio_content |-> Content("audio_files", ai)])
    ELSE Len(candidates') = Len(candidates)

\* the buckets that match an audio key of these words at any stage
MatchesAtAnyStage(audio_name, audio_words) ==
    SharesKey(audio_name) \cup SharesWord(audio_words) \cup SharesSubstring(audio_words)

\* C12: an audio upload creates a new bucket, keyed by its normalized name and
\* holding that audio and no resume, if and only if no bucket existing at that
\* moment (standalone buckets of earlier audio uploads included) matches it by
\* exact key, whole-word overlap or substring pair of length >= 3.
C12_NewBucketIffNoMatch ==
    [][AudioStep =>
           NewBucketIffNoMatch(normalize_name(audio_files[ai]),
               MatchesAtAnyStage(normalize_name(audio_files[ai]),
                                 WordSet(normalize_name(audio_files[ai]))))]_vars

\* the first audio creates a standalone bucket, the second one joins it
C12_Witness ==
    /\ resumes = <<>>
    /\ audio_files = <<f_John_Doe_Interview, f_john_interview>>
    /\ ai = 3
    /\ Len(candidates) = 1
    /\ candidates[1].resume_file = None
    /\ candidates[1].audio_file = f_john_interview

\* C13: after every step of the grouping pass every bucket has at least one
\* artifact: its resume_file or its audio_file is set.
C13_BucketHasArtifact ==
    \A b \in 1..Len(candidates) :
        candidates[b].resume_file # None \/ candidates[b].audio_file # None

\* a bucket with a resume only, then a standalone bucket with an audio only
C13_Witness ==
    /\ Len(candidates) = 2
    /\ candidates[1].resume_file # None
    /\ candidates[1].audio_file = None
    /\ candidates[2].resume_file = None
    /\ candidates[2].audio_file = f_jo_audio

\* the example: john_doe_resume.pdf and johndoe_interview.mp3
C14_Example(audio_name, audio_words) ==
    (resumes = <<f_john_doe_resume>> /\ audio_files = <<f_johndoe_interview>>) =>
        /\ candidates[1].name = <<"j", "o", "h", "n", " ", "d", "o", "e">>
        /\ audio_name = <<"j", "o", "h", "n", "d", "o", "e">>
        /\ SharesWord(audio_words) = {}
        /\ Len(candidates') = 1
        /\ candidates'[1].resume_file = f_john_doe_resume
        /\ candidates'[1].audio_file = f_johndoe_interview

\* the claim of C14 for an audio key and its words
SubstringMatchFor(audio_name, audio_words) ==
    /\ (~HasKey(candidates, audio_name) /\ SharesWord(audio_words) = {}) =>
           HoldsAudio \cap 1..Len(candidates) =
               IF SharesSubstring(audio_words) = {} THEN {}
               ELSE {Min(SharesSubstring(audio_words))}
    /\ C14_Example(audio_name, audio_words)

\* C14: an audio that matches no bucket by key or by whole word is merged with
\* a bucket when a word of its key and a word of the bucket key, both of length
\* 3 or more, are one a substring of the other, and never through a pair with
\* a word shorter than 3; john_doe_resume.pdf and johndoe_interview.mp3 have
\* the keys "john doe" and "johndoe", share no word and end in one bucket.
C14_SubstringMatch ==
    [][AudioStep =>
           SubstringMatchFor(normalize_name(audio_files[ai]),
                             WordSet(normalize_name(audio_files[ai])))]_vars

\* the example's bucket, holding both files
C14_Witness ==
    /\ resumes = <<f_john_doe_resume>>
    /\ audio_files = <<f_johndoe_interview>>
    /\ ai = 2
    /\ Len(candidates) = 1
    /\ candidates[1].resume_file = f_john_doe_resume
    /\ candidates[1].audio_file = f_johndoe_interview

\* Every bucket holds no audio or one of the uploads processed so far, file
\* name and content of the same upload; no upload is held by two buckets; the
\* buckets are no more than the uploads processed so far.
AtMostOneAudio ==
    /\ \A b \in 1..Len(candidates) :
          \/ candidates[b].audio_file = None /\ candidates[b].audio_content = None
          \/ \E k \in 1..(ai - 1) :
                /\ candidates[b].audio_file = audio_files[k]
                /\ candidates[b].audio_content = Content("audio_files", k)
    /\ \A b, c \in 1..Len(candidates) :
          (b # c /\ candidates[b].audio_content = candidates[c].audio_content) =>
              candidates[b].audio_content = None
    /\ Len(candidates) <= (ri - 1) + (ai - 1)
    /\ Len(candidates) <= Len(resumes) + Len(audio_files)

\* the upload of an audio step is held by one bucket after the step, and the
\* upload that bucket held before the step by none
LastMatchWins ==
    AudioStep =>
        /\ Cardinality(HoldsAudio) = 1
        /\ \A b \in HoldsAudio \cap (1..Len(candidates)) :
              candidates[b].audio_content # None =>
                  \A c \in 1..Len(candidates') :
                      candidates'[c].audio_content # candidates[b].audio_content

\* C28: a bucket holds at most one audio artifact and the last match wins:
\* when two audio uploads resolve to the same bucket, by any stage, the bucket
\* ends up holding the later one and the earlier one is in no bucket of the
\* output; the audio artifacts of the output can so be fewer than the audio
\* uploads, and the buckets are never more than resumes plus audio uploads.
C28_LastMatchWins == []AtMostOneAudio /\ [][LastMatchWins]_vars

\* two audio uploads for one resume, the first matched by its key and the
\* second by a shared word: one bucket, holding the second
C28_Witness ==
    /\ resumes = <<f_john_doe_resume>>
    /\ audio_files = <<f_John_Doe_Interview, f_john_interview>>
    /\ ai = 3
    /\ Len(candidates) = 1
    /\ candidates[1].resume_file = f_john_doe_resume
    /\ candidates[1].audio_file = f_john_interview
    /\ candidates[1].audio_content = Content("audio_files", 2)

\* C29: processing an audio upload changes no bucket's resume_file or
\* resume_content, removes no bucket and changes no bucket's key; it changes
\* the audio fields of at most one existing bucket or else adds exactly one
\* new bucket, and leaves every other bucket as it was.
C29_AudioStepFrame ==
    [][AudioStep =>
          /\ Len(candidates') >= Len(candidates)
          /\ \A b \in 1..Len(candidates) :
                /\ candidates'[b].name = candidates[b].name
                /\ candidates'[b].resume_file = candidates[b].resume_file
                /\ candidates'[b].resume_content = candidates[b].resume_content
          /\ \/ Len(candidates') = Len(candidates) /\ Cardinality(ChangedBuckets) <= 1
             \/ Len(candidates') = Len(candidates) + 1 /\ ChangedBuckets = {}]_vars

\* two buckets with a resume each, after an audio step that gave the first its
\* audio and left the second as it was
C29_Witness ==
    /\ resumes = <<f_john_doe_resume, f_johnathan_smith_cv>>
    /\ audio_files = <<f_john_interview>>
    /\ ai = 2
    /\ Len(candidates) = 2
    /\ candidates[1].resume_file = f_john_doe_resume
    /\ candidates[1].resume_content = Content("resumes", 1)
    /\ candidates[1].audio_file = f_john_interview
    /\ candidates[2].resume_file = f_johnathan_smith_cv
    /\ candidates[2].audio_file = None

----------------------------------------------------------------------------
(* Properties of normalize_name (SpecNames) *)

\* the first index from q on that holds a character of seps
RECURSIVE RunEnd(_, _, _)
RunEnd(text, seps, q) ==
    IF q <= Len(text) /\ text[q] \notin seps THEN RunEnd(text, seps, q + 1) ELSE q

\* the maximal runs of text from index p on that hold no character of seps
RECURSIVE Pieces(_, _, _)
Pieces(text, seps, p) ==
    IF p > Len(text) THEN <<>>
    ELSE IF text[p] \in seps THEN Pieces(text, seps, p + 1)
    ELSE <<SubSeq(text, p, RunEnd(text, seps, p) - 1)>>
             \o Pieces(text, seps, RunEnd(text, seps, p))

\* the tokens the specification has normalization remove
Tokens ==
    { <<"r", "e", "s", "u", "m", "e">>, <<"c", "v">>,
      <<"i", "n", "t", "e", "r", "v", "i", "e", "w">>,
      <<"a", "u", "d", "i", "o">>,
      <<"r", "e", "c", "o", "r", "d", "i", "n", "g">> }

IsNoToken(piece) == lower(piece) \notin Tokens

\* the words the specification leaves of a stem: its pieces between
\* separators and ends, those that are tokens removed, in lower case
WordsLeft(pieces) == [i \in 1..Len(pieces) |-> lower(pieces[i])]

\* C15: normalize_name drops path and extension, removes the tokens resume,
\* cv, interview, audio and recording (letter case ignored) exactly when they
\* are bounded by separators or the ends of the name, leaves those letters
\* untouched inside a longer word, turns runs of '_' and '-' into single
\* spaces, lowercases and trims: the words of the result are the pieces of the
\* stem other than the tokens, in lower case.
C15_SeparatorBoundedTokens ==
    call.fn = "normalize_name" =>
        /\ Pieces(call.ret, Whitespace, 1) =
               WordsLeft(SelectSeq(Pieces(call.path[2], {"_", "-"} \cup Whitespace, 1),
                                   IsNoToken))
        /\ call.ret = strip(lower(call.ret))
        /\ \A i \in 1..Len(call.ret) : call.ret[i] \notin {"_", "-"}

----------------------------------------------------------------------------
(* Properties of the experience assessor (SpecExperience) *)

\* the claim of C16 for the rounded years c and r
OneBranch(c, r, explanations, notes) ==
    /\ Len(explanations) = 1
    /\ explanations[1].candidate_total = c
    /\ explanations[1].required_total = r
    /\ c >= r => (explanations[1].mark = "ok" /\ notes = <<>>)
    /\ (r - 1 <= c /\ c < r) => (explanations[1].mark = "~" /\ notes = <<>>)
    /\ c < r - 1 =>
          /\ explanations[1].mark = "warning"
          /\ Len(notes) = 1
          /\ notes[1].gap = r - c
          /\ notes[1].gap >= 2

\* C16: check_experience compares the rounded candidate years c with the
\* rounded required years r with a tolerance of 1 and takes exactly one
\* branch: c >= r gives one informational explanation and no note, r-1 <= c < r
\* one 'within tolerance' explanation and no note, c < r-1 one warning and one
\* gap note of magnitude r - c >= 2.
C16_OneBranch ==
    call.fn = "check_experience" =>
        OneBranch(round_experience(scoring, call.args[1]),
                  round_experience(scoring, call.args[2]),
                  call.ret[1], call.ret[2])

\* 2 years against 4.25 required: a warning and a gap of 2
C16_Witness ==
    /\ call.fn = "check_experience"
    /\ call.args[1] = Num(2)
    /\ call.args[2] = Rat(17, 4)
    /\ call.ret[1][1].mark = "warning"
    /\ call.ret[2][1].gap = 2

\* y < r and y >= r for years y and a rational r; no rational of the model
\* lies between the double next below 0.5 and 0.5
YearsLt(y, r) == IF y = BelowHalf THEN RatLe(Rat(1, 2), r) ELSE RatLt(y, r)

YearsGe(y, r) == IF y = BelowHalf THEN RatLt(r, Rat(1, 2)) ELSE RatLe(r, y)

\* C18: round_experience(y) is floor(y + 0.5) for every non-negative y, round
\* half up: the integer m with m - 0.5 <= y < m + 0.5; round_experience(4.5) = 5,
\* round_experience(4.49) = 4, round_experience(0) = 0, and
\* round_experience(n + 0.5) = n + 1 for every integer n.
C18_RoundHalfUp ==
    call.fn = "round_experience" =>
        /\ YearsGe(call.args[1], Num(0)) =>
              /\ YearsGe(call.args[1], Rat(2 * call.ret - 1, 2))
              /\ YearsLt(call.args[1], Rat(2 * call.ret + 1, 2))
        /\ call.args[1] = Rat(45, 10) => call.ret = 5
        /\ call.args[1] = Rat(449, 100) => call.ret = 4
        /\ call.args[1] = Num(0) => call.ret = 0
        /\ (call.args[1] # BelowHalf /\ call.args[1].d = 2) =>
              call.ret = (call.args[1].n + 1) \div 2

----------------------------------------------------------------------------
(* Properties of score_candidate on further inputs (SpecCandidate) *)

\* dict d with the entries of defaults for the keys it lacks
WithDefaults(d, defaults) ==
    [k \in DOMAIN d \cup DOMAIN defaults |-> IF k \in DOMAIN d THEN d[k] ELSE defaults[k]]

\* the documented defaults: depth 8, formatting 2, experience 0, an empty
\* strength map, empty lists
ResumeDefaults ==
    [skill_strength |-> <<>>,
     engineering_depth_score |-> Num(8),
     formatting_score |-> Num(2),
     estimated_total_experience |-> Num(0),
     estimated_relevant_experience |-> <<>>]

JobDefaults ==
    [must_have_skills |-> <<>>,
     nice_to_have_skills |-> <<>>,
     total_experience_required |-> Num(0),
     relevant_experience_required |-> <<>>]

BreakdownKeys ==
    {"base_score", "must_have_score", "nice_to_have_score", "suitability_score",
     "formatting_score", "total", "skills_breakdown", "experience_notes", "notes"}

\* C21: score_candidate always returns a full breakdown (base_score,
\* must_have_score, nice_to_have_score, suitability_score, formatting_score,
\* total, skills_breakdown, experience_notes, notes) and never fails on a
\* missing upstream field: a call with any of the fields absent returns what
\* the call with depth 8, formatting 2, experience 0, an empty strength map
\* and empty lists supplied for them returns; two empty analyses score 53.0.
C21_DefaultsForAbsent ==
    call.fn = "score_candidate" =>
        /\ DOMAIN call.ret = {"final_score", "breakdown"}
        /\ DOMAIN call.ret.breakdown = BreakdownKeys
        /\ call.ret = score_candidate(scoring,
                                      WithDefaults(call.args[1], ResumeDefaults),
                                      WithDefaults(call.args[2], JobDefaults),
                                      call.fp)
        /\ (DOMAIN call.args[1] = {} /\ DOMAIN call.args[2] = {}) =>
               /\ call.ret.final_score = Num(53)
               /\ call.ret.breakdown.base_score = Num(40)
               /\ call.ret.breakdown.must_have_score = Num(0)
               /\ call.ret.breakdown.nice_to_have_score = Num(0)
               /\ call.ret.breakdown.suitability_score = Num(13)

\* an empty resume analysis against an empty job analysis
C21_Witness ==
    /\ call.fn = "score_candidate"
    /\ DOMAIN call.args[1] = {}
    /\ DOMAIN call.args[2] = {}
    /\ call.ret.final_score = Num(53)
    /\ call.ret.breakdown.formatting_score = Num(2)
    /\ Len(call.ret.breakdown.experience_notes) = 1

\* an integer from lo to hi
IsIntegerIn(r, lo, hi) == r.d = 1 /\ lo <= r.n /\ r.n <= hi

\* C26: through score_candidate the clamp of calculate_final_score never
\* binds: must_have_score is an integer in [0,30], nice_to_have_score an
\* integer in [0,5] and suitability_score an integer in [0,25], so final_score
\* is exactly 40 + must_have_score + nice_to_have_score + suitability_score, is
\* at least 40, and is 100 only when all three components are at their maxima.
C26_ClampNeverBinds ==
    call.fn = "score_candidate" =>
        \E b \in {call.ret.breakdown} :
            /\ IsIntegerIn(b.must_have_score, 0, 30)
            /\ IsIntegerIn(b.nice_to_have_score, 0, 5)
            /\ IsIntegerIn(b.suitability_score, 0, 25)
            /\ call.ret.final_score =
                   Num(40 + b.must_have_score.n + b.nice_to_have_score.n
                          + b.suitability_score.n)
            /\ RatLe(Num(40), call.ret.final_score)
            /\ call.ret.final_score = Num(100) =>
                  /\ b.must_have_score = Num(30)
                  /\ b.nice_to_have_score = Num(5)
                  /\ b.suitability_score = Num(25)

\* the longest must-have list, every skill strong, a depth above its range:
\* all three components at their maxima and the final score 100
C26_Witness ==
    /\ call.fn = "score_candidate"
    /\ prev = NoCall
    /\ Len(Get(call.args[2], "must_have_skills", <<>>)) = MaxMustHave
    /\ Get(call.args[1], "engineering_depth_score", Num(8)) = Num(15 + MaxDepthExcess)
    /\ call.ret.breakdown.must_have_score = Num(30)
    /\ call.ret.breakdown.nice_to_have_score = Num(5)
    /\ call.ret.breakdown.suitability_score = Num(25)
    /\ call.ret.final_score = Num(100)

\* C30: for fixed requirement lists and engineering depth, a strength map
\* that gives every skill a tier at least as high (missing < weak < moderate <
\* strong, same keys) gives a must-have total, a nice-to-have total and a
\* final_score each at least as high, the rounding of the category totals
\* notwithstanding.
C30_MonotoneInStrength ==
    (/\ call.fn = "score_candidate"
     /\ prev.fn = "score_candidate"
     /\ call.args[2] = prev.args[2]
     /\ Without(call.args[1], {"skill_strength"}) = Without(prev.args[1], {"skill_strength"})
     /\ call.args[1].skill_strength \in RaisedMaps(prev.args[1].skill_strength)) =>
        /\ RatLe(prev.ret.breakdown.must_have_score, call.ret.breakdown.must_have_score)
        /\ RatLe(prev.ret.breakdown.nice_to_have_score, call.ret.breakdown.nice_to_have_score)
        /\ RatLe(prev.ret.final_score, call.ret.final_score)

\* both must-have sums are ties, 19.5 and 25.5: the lower one was rounded up
\* and the higher one down
C30_Witness ==
    /\ call.fn = "score_candidate"
    /\ prev.fn = "score_candidate"
    /\ Len(Get(call.args[2], "must_have_skills", <<>>)) = 2
    /\ prev.args[1].skill_strength = << <<s_A, weak>>, <<s_B, strong>> >>
    /\ call.args[1].skill_strength = << <<s_A, moderate>>, <<s_B, strong>> >>
    /\ prev.fp = 1
    /\ call.fp = -1
    /\ prev.ret.breakdown.must_have_score = Num(20)
    /\ call.ret.breakdown.must_have_score = Num(25)

----------------------------------------------------------------------------
(* Properties of the loop over the candidates (SpecScreen) *)

\* the positions in the trace of the calls of fn for candidate i
Events(fn, i) == {p \in 1..Len(trace) : trace[p].fn = fn /\ trace[p].at = i}

\* candidate i was transcribed with success to a text that is not empty, and
\* an audio analysis was made of it
AudioAnalysed(i) ==
    /\ \E p \in Events("transcribe_file", i) :
          trace[p].ret.success /\ trace[p].ret.text # <<>>
    /\ Events("analyze_audio", i) # {}

\* the claim of C22 for candidate i and its result
AudioOnlyResult(i, res) ==
    /\ candidates[i].resume_file = None =>
          /\ candidates[i].audio_file # None
          /\ res.resume_file = None
          /\ res.resume_score = None
          /\ res.score_breakdown = None
          /\ res.recommendation # None <=> AudioAnalysed(i)
    /\ Events("generate_recommendation", i) # {} <=>
           (res.resume_score # None \/ res.audio_analysis # None)
    /\ Events("generate_recommendation", i) # {} <=> res.recommendation # None

ScoresOwnAnalysis(i, s) ==
    /\ s - 1 \in Events("analyze_resume", i)
    /\ trace[s].ret = score_candidate(ScoringService, trace[s - 1].ret, jd, 0)

\* C23: for every candidate, its resume analysis and its audio analysis have
\* both completed before its scoring (score_candidate) runs, and the score of
\* a candidate does not depend on the order in which the others are processed.
C23_AnalysesBeforeScoring ==
    \A i \in 1..Len(candidates) : \A s \in Events("score_candidate", i) :
        /\ ScoresOwnAnalysis(i, s)
        /\ \A q \in Events("analyze_audio", i) : q < s

\* C23 as the code has it: for every candidate, its resume analysis has
\* completed before its scoring runs, and the score is that of this analysis
\* and the job analysis alone; its audio is transcribed and analysed after its
\* scoring, and before its recommendation is generated.
C23_ResumeAnalysisBeforeScoring ==
    \A i \in 1..Len(candidates) :
        /\ \A s \in Events("score_candidate", i) :
              /\ ScoresOwnAnalysis(i, s)
              /\ \A q \in Events("transcribe_file", i) \cup Events("analyze_audio", i) : s < q
        /\ \A g \in Events("generate_recommendation", i) :
              \A q \in Events("analyze_resume", i) \cup Events("score_candidate", i)
                       \cup Events("transcribe_file", i) \cup Events("analyze_audio", i) : q < g

\* the second candidate, with a resume and an audio, scored on an analysis
\* other than the first one's and its audio analysed after that
C23_Witness ==
    /\ Len(results) = 1
    /\ pc = "recommend"
    /\ \E s \in Events("score_candidate", 2) :
          /\ trace[s - 1].ret # trace[1].ret
          /\ \E q \in Events("analyze_audio", 2) : s < q

----------------------------------------------------------------------------
(* Properties of concurrent score_candidate calls (SpecThreads) *)

\* a call that has returned has returned what it returns run alone on a new
\* instance, and the instance has the weights __init__ gave it
ReturnsAsAlone ==
    /\ scoring = ScoringService
    /\ scoring.base_score = 40
    /\ scoring.must_have_max = 30
    /\ scoring.nice_to_have_max = 5
    /\ scoring.suitability_max = 25
    /\ \A t \in Threads :
          frames[t].pc = "done" =>
              frames[t].ret = score_candidate(ScoringService, frames[t].args[1],
                                              frames[t].args[2], 0)

\* a statement of a call writes neither the instance nor the arguments of any
\* call in progress
WritesNothing ==
    /\ scoring' = scoring
    /\ \A t \in Threads :
          frames[t].pc \notin {"idle", "done"} => frames'[t].args = frames[t].args

\* C24: the scoring engine is reentrant: under any interleaving of
\* score_candidate calls on one shared ScoringService each call returns what
\* it returns when run alone; no call writes the weights (base 40, must-have
\* 30, nice-to-have 5, suitability 25) or its resume_analysis and jd_analysis
\* arguments.
C24_Reentrant == []ReturnsAsAlone /\ [][WritesNothing]_vars

\* one call has returned while another one, on other analyses, is between its
\* statements
C24_Witness ==
    /\ frames[1].pc = "done"
    /\ frames[2].pc = "experience"
    /\ frames[1].args # frames[2].args
    /\ frames[1].ret.final_score = Num(95)

====
